---- MODULE Spec2Model ----
(***************************************************************************)
(* Model of the TFT_Menu MenuSystem (navigation state machine, animation   *)
(* engine and redraw scheduler) and of the sketch that drives it.          *)
(*                                                                         *)
(* The MenuSystem object is one record, `menu`, whose fields carry the     *)
(* names of the C++ members.  Every member function is an operator from    *)
(* the object (and the clock value it reads through millis()) to the       *)
(* object after the call, so that a callback which re-enters the object    *)
(* (the "Back" items call menu.back() from inside select()) is modelled by *)
(* plain composition.  Floats are fixed-point integers, SCALE units per    *)
(* pixel.  The buzzer and the display are modelled by the calls the last   *)
(* handler made on them.                                                   *)
(***************************************************************************)
EXTENDS Integers, Sequences, FiniteSets, TLC

VARIABLES menu, op, probe

vars == <<menu, op, probe>>

(***************************************************************************)
(* Bounds of the model                                                     *)
(***************************************************************************)
\* sub-pixel units per pixel of the fixed-point floats
SCALE == 16
\* the clock advances in steps of this many milliseconds
TickMillis == 100
\* number of one-item menus nested above the main menu
ChainLen == 7

(***************************************************************************)
(* Arithmetic helpers (C semantics)                                        *)
(***************************************************************************)
Max(a, b) == IF a >= b THEN a ELSE b

Abs(a) == IF a >= 0 THEN a ELSE -a

Min(a, b) == IF a <= b THEN a ELSE b

\* C division and float-to-int conversion truncate toward zero
TruncDiv(a, b) == IF a >= 0 THEN a \div b ELSE -((-a) \div b)

\* fmod: the remainder keeps the sign of the dividend
Fmod(a, b) == a - b * TruncDiv(a, b)

\* a float quotient, rounded to the nearest value the fixed point has
FloatDiv(a, b) == IF a >= 0 THEN (2 * a + b) \div (2 * b)
                            ELSE -((2 * (-a) + b) \div (2 * b))

U8(a) == a % 256

\* Arduino round(): half away from zero, here from fixed point to pixels
Round(v) == IF v >= 0 THEN (2 * v + SCALE) \div (2 * SCALE)
                      ELSE -((2 * (-v) + SCALE) \div (2 * SCALE))

Fx(p) == p * SCALE

constrain(v, lo, hi) == IF v < lo THEN lo ELSE IF v > hi THEN hi ELSE v

(***************************************************************************)
(* The display (TFT_eSPI) as the sketch configures it                      *)
(***************************************************************************)
tftWidth == 160

tftHeight == 80

\* built-in GLCD font: 8 pixel rows and 6 pixel columns per text size unit
fontHeight(size) == 8 * size

textWidth(chars, size) == 6 * size * chars

Draw(o, x, y, w, h) == [op |-> o, x |-> x, y |-> y, w |-> w, h |-> h]

(***************************************************************************)
(* The menu tree                                                           *)
(***************************************************************************)
NULL == 0

SLIDER_DISPLAY_FOLLOW_SELECTION == 0

SLIDER_DISPLAY_FIXED_TOP == 1

MenuItem(label, chars, callback) ==
  [label |-> label, chars |-> chars, callback |-> callback,
   subMenu |-> NULL, subMenuSize |-> 0]

setSubMenu(item, subMenu, size) ==
  [item EXCEPT !.subMenu = subMenu, !.subMenuSize = size]

hasSubMenu(item) == item.subMenu # NULL

\* Menu arrays are named by numbers.  The tree is one a sketch can hand to
\* setRootMenu, built from the kinds of item the sketch has: plain items,
\* items with a submenu, and items with each of its callbacks.  MainMenu,
\* SetMenu, AnimMenu and FormMenu nest one inside the other; EmptyMenu is an
\* array of size 0; the arrays ChainTop .. ChainTop + ChainLen - 1 hold one
\* item each, whose submenu is the next of them, the last one's being
\* MainMenu, so that the tree is deeper than the history arrays are long.
\* "Buzz" requests the window sequence (BuzzCallback sets TypeNum = 1),
\* "Delay" sets TypeNum = 2 (DelayCallBack), "Back" calls menu.back().
MainMenu == 1

SetMenu == 2

AnimMenu == 3

FormMenu == 4

EmptyMenu == 5

ChainTop == 6

\* a root array whose items differ in width and whose last item opens a
\* submenu longer than the array itself
WideMenu == 30

MenuArray(m) ==
  IF m = WideMenu THEN
    << MenuItem("Landscape", 9, "NULL"),
       MenuItem("Step", 4, "NULL"),
       setSubMenu(MenuItem("Setting", 7, "NULL"), SetMenu, 4) >>
  ELSE IF m = MainMenu THEN
    << MenuItem("Main", 4, "NULL"),
       setSubMenu(MenuItem("Set", 3, "NULL"), SetMenu, 4),
       MenuItem("Delay", 5, "DelayCallBack"),
       MenuItem("Buzz", 4, "BuzzCallback") >>
  ELSE IF m = SetMenu THEN
    << setSubMenu(MenuItem("Anim", 4, "NULL"), AnimMenu, 2),
       MenuItem("Buzz", 4, "BuzzCallback"),
       MenuItem("Delay", 5, "DelayCallBack"),
       MenuItem("Back", 4, "Back") >>
  ELSE IF m = AnimMenu THEN
    << setSubMenu(MenuItem("Form", 4, "NULL"), FormMenu, 1),
       setSubMenu(MenuItem("Para", 4, "NULL"), EmptyMenu, 0) >>
  ELSE IF m = FormMenu THEN
    << MenuItem("Stable", 6, "NULL") >>
  ELSE IF m = EmptyMenu THEN << >>
  ELSE IF m = ChainTop + ChainLen - 1 THEN
    << setSubMenu(MenuItem("Next", 4, "NULL"), MainMenu, 4) >>
  ELSE
    << setSubMenu(MenuItem("Next", 4, "NULL"), m + 1, 1) >>

\* currentMenu[index]
ItemAt(m, index) == MenuArray(m)[index + 1]

(***************************************************************************)
(* MenuSystem: layout                                                      *)
(***************************************************************************)
calculateItemWidthMissing(s) == s.menuItemsXOffset + 50

calculateLayoutParameters(s) ==
  LET screenWidth == tftWidth
      screenHeight == tftHeight
      titleFontActualHeight == fontHeight(s.titleFontSize)
      titlePaddingY == U8(Max(5, titleFontActualHeight \div 3))
      actualTitleAreaHeight == titleFontActualHeight + 2 * titlePaddingY
      titleTextX == U8((screenWidth * 8) \div 100)
      titleTextY == U8(titlePaddingY
                       + (actualTitleAreaHeight - titleFontActualHeight) \div 2)
      titleDecoratorW == U8((screenWidth * 5) \div 100)
      titleDecoratorH == titleDecoratorW
      titleDecoratorX == U8(Max(2, titleTextX \div 2 - titleDecoratorW \div 2))
      titleDecoratorY == U8(titleTextY + titleFontActualHeight \div 2
                            - titleDecoratorH \div 2)
      menuItemFontActualHeight == fontHeight(s.menuFontSize)
      menuItemVerticalPaddingInside == U8(Max(4, menuItemFontActualHeight \div 2))
      actualMenuItemHeight ==
        menuItemFontActualHeight + 2 * menuItemVerticalPaddingInside
      actualMenuItemSpacing == U8(Max(5, actualMenuItemHeight \div 4))
      menuItemsAreaY == U8(actualTitleAreaHeight + s.titleBottomMargin)
      menuItemsXOffset == 0
      menuItemCornerRadius == U8(Max(4, actualMenuItemHeight \div 4))
      usableMenuHeight == screenHeight - actualTitleAreaHeight
      computedMax ==
        IF actualMenuItemHeight + actualMenuItemSpacing > 0
        THEN U8(TruncDiv(usableMenuHeight,
                         actualMenuItemHeight + actualMenuItemSpacing))
        ELSE 1
  IN [s EXCEPT
        !.screenWidth = screenWidth,
        !.screenHeight = screenHeight,
        !.actualTitleAreaHeight = actualTitleAreaHeight,
        !.titleDecoratorW = titleDecoratorW,
        !.titleDecoratorX = titleDecoratorX,
        !.actualMenuItemHeight = actualMenuItemHeight,
        !.actualMenuItemSpacing = actualMenuItemSpacing,
        !.menuItemsAreaY = menuItemsAreaY,
        !.menuItemsXOffset = menuItemsXOffset,
        !.menuItemTextXPadding = U8((screenWidth * 4) \div 100),
        !.menuItemBorderOffset = U8(Max(1, menuItemCornerRadius \div 4)),
        !.menuItemArrowWidth = U8(Max(8, (menuItemFontActualHeight * 6) \div 10)),
        !.menuItemDefaultMaxWidth =
           U8(screenWidth - menuItemsXOffset - (screenWidth * 5) \div 100),
        !.actualMaxDisplayItems =
           IF computedMax = 0 /\ s.currentMenuSize > 0 THEN 1 ELSE computedMax,
        !.needFullRedraw = TRUE]

calculateItemWidth(s, index) ==
  IF s.currentMenu = NULL \/ index >= s.currentMenuSize
  THEN calculateItemWidthMissing(s)
  ELSE LET item == ItemAt(s.currentMenu, index)
           textActualWidth == textWidth(item.chars, s.menuFontSize)
           desiredWidth == textActualWidth + 2 * s.menuItemTextXPadding
                           + (IF hasSubMenu(item)
                              THEN s.menuItemArrowWidth
                                   + s.menuItemTextXPadding \div 2
                              ELSE 0)
           minItemWidth == (s.screenWidth * 3) \div 10
       IN constrain(desiredWidth, minItemWidth, s.menuItemDefaultMaxWidth)

\* a RectF, in pixels
RectF(x, y, width, height) == [x |-> x, y |-> y, width |-> width, height |-> height]

calculateSliderTargetRect(s, index) ==
  LET y == IF s._sliderDisplayMode = SLIDER_DISPLAY_FIXED_TOP
           THEN s.menuItemsAreaY
           ELSE s.menuItemsAreaY
                + (index - s.startIndex)
                  * (s.actualMenuItemHeight + s.actualMenuItemSpacing)
      r == RectF(s.menuItemsXOffset, y, calculateItemWidth(s, index),
                 s.actualMenuItemHeight)
      r1 == IF s._useCustomSliderPosition
            THEN [r EXCEPT !.x = IF s._customSliderX # -1
                                 THEN s._customSliderX ELSE @,
                           !.y = IF s._customSliderY # -1
                                 THEN s._customSliderY ELSE @]
            ELSE r
  IN IF s._useCustomSliderSize
     THEN [r1 EXCEPT !.width = IF s._customSliderWidth # -1
                               THEN s._customSliderWidth ELSE @,
                     !.height = IF s._customSliderHeight # -1
                                THEN s._customSliderHeight ELSE @]
     ELSE r1

\* the rectangle the slider is parked at in an empty menu, in fixed point
PlaceholderRect(s) ==
  RectF(Fx(s.menuItemsXOffset), Fx(s.menuItemsAreaY),
        (Fx(s.menuItemDefaultMaxWidth) * 8) \div 10, Fx(s.actualMenuItemHeight))

\* sliderAnim.{x,y,w,h}_cur = r (r in fixed point)
SetCur(a, r) ==
  [a EXCEPT !.x_cur = r.x, !.y_cur = r.y, !.w_cur = r.width, !.h_cur = r.height]

SetTgt(a, r) ==
  [a EXCEPT !.x_tgt = r.x, !.y_tgt = r.y, !.w_tgt = r.width, !.h_tgt = r.height]

FxRect(r) == RectF(Fx(r.x), Fx(r.y), Fx(r.width), Fx(r.height))

CurRect(a) == RectF(a.x_cur, a.y_cur, a.w_cur, a.h_cur)

TgtRect(a) == RectF(a.x_tgt, a.y_tgt, a.w_tgt, a.h_tgt)

(***************************************************************************)
(* MenuSystem: animation engine                                            *)
(***************************************************************************)
\* natural frequency of the spring model, rad/s
omega_n == 15

\* twice the damping ratio zeta = 0.5
TwoZeta == 1

timeStalledNever(deltaTime) == FALSE

\* if (deltaTime <= 0.0f) return false;
timeStalled(deltaTime) == deltaTime <= 0

\* one component, one tick; deltaTime in milliseconds.  The result holds the
\* values left in *current, *velocity, *error and the returned flag.
animateSingleValue(s, current, target, velocity, error, deltaTime) ==
  IF Abs(current - target) * 2 < SCALE
  THEN [done |-> TRUE, current |-> target, velocity |-> 0, error |-> 0]
  ELSE IF s._animationForm = 1
  THEN LET step == FloatDiv((target - current) * s.animInterval, s.animDuration)
           c1 == current + step
           e1 == error + (target - c1)
           c2 == c1 + FloatDiv(e1 * s.animInterval, s.animDuration)
           \* animDuration / 0.0f is +inf, and fmod(e, +inf) is e
           e2 == IF s.animInterval = 0 THEN e1
                 ELSE Fmod(e1, FloatDiv(Fx(s.animDuration), s.animInterval))
       IN [done |-> FALSE, current |-> c2, velocity |-> velocity, error |-> e2]
  ELSE IF s._animationForm = 2
  THEN IF timeStalled(deltaTime)
       THEN [done |-> FALSE, current |-> current, velocity |-> velocity,
             error |-> error]
       ELSE LET displacement == current - target
                acceleration == -(TwoZeta * omega_n * velocity)
                                - omega_n * omega_n * displacement
                v1 == velocity + FloatDiv(acceleration * deltaTime, 1000)
                c1 == current + FloatDiv(v1 * deltaTime, 1000)
            IN [done |-> FALSE, current |-> c1, velocity |-> v1, error |-> error]
  ELSE [done |-> FALSE, current |-> current, velocity |-> velocity,
        error |-> error]

startAnimationPosition(s, now, targetX, targetY, targetWidth, targetHeight) ==
  [s EXCEPT
     !.sliderAnim = [@ EXCEPT !.x_tgt = Fx(targetX), !.y_tgt = Fx(targetY)],
     !.animationActive = TRUE,
     !.lastAnimTime = now]

startAnimation(s, now, targetX, targetY, targetWidth, targetHeight) ==
  [s EXCEPT
     !.sliderAnim = SetTgt(@, FxRect(RectF(targetX, targetY, targetWidth,
                                           targetHeight))),
     !.animationActive = TRUE,
     !.lastAnimTime = now]

startAnimationTo(s, now, r) == startAnimation(s, now, r.x, r.y, r.width, r.height)

\* the longest elapsed time handed to the integrator, in milliseconds
ClampMillis == 100

\* the elapsed time handed to the integrator, in milliseconds
DeltaTime(s, elapsed) ==
  LET capped == IF elapsed > ClampMillis THEN ClampMillis ELSE elapsed
  IN IF capped <= 0 THEN s.animInterval ELSE capped

Log(s, d) == [s EXCEPT !.tft = Append(@, d)]

RoundedCur(a) ==
  RectF(Round(a.x_cur), Round(a.y_cur), Round(a.w_cur), Round(a.h_cur))

drawAnimatedSlider(s) ==
  IF s.currentMenuSize = 0 THEN s
  ELSE LET r == RoundedCur(s.sliderAnim)
       IN Log(s, Draw("slider", r.x, r.y, r.width, r.height))

drawAnimatedWindow(s) ==
  IF s.currentMenuSize = 0 THEN s
  ELSE LET r == RoundedCur(s.sliderAnim)
       IN Log(s, Draw("window", r.x, r.y, r.width, r.height))

drawMenuItem(s, index, isSelected) ==
  IF index >= s.currentMenuSize \/ isSelected THEN s
  ELSE Log(s, Draw("item", index, 0, 0, 0))

\* the previous highlight is wiped from the display
eraseLastSelected(s) ==
  IF s.lastSelectedRect.valid
  THEN Log(s, Draw("erase", s.lastSelectedRect.x, s.lastSelectedRect.y,
                   s.lastSelectedRect.width, s.lastSelectedRect.height))
  ELSE s

\* updateAnimation: the item that was selected before is drawn unselected
redrawLastSelected(s) ==
  IF /\ s.lastSelectedIndex # -1
     /\ s.lastSelectedIndex # s.selectedIndex
     /\ s.lastSelectedIndex >= s.startIndex
     /\ s.lastSelectedIndex < s.startIndex + s.actualMaxDisplayItems
  THEN drawMenuItem(s, s.lastSelectedIndex, FALSE)
  ELSE s

drawAnimated(s, type) ==
  IF type = 0 THEN drawAnimatedSlider(s) ELSE drawAnimatedWindow(s)

\* lastSelectedRect = the rectangle just drawn, widened by the border
rememberSliderRect(s, new) ==
  [s EXCEPT !.lastSelectedRect =
     [x |-> new.x - s.menuItemBorderOffset,
      y |-> new.y - s.menuItemBorderOffset,
      width |-> new.width + 2 * s.menuItemBorderOffset,
      height |-> new.height + 2 * s.menuItemBorderOffset,
      valid |-> TRUE]]

\* updateAnimation: the redraw made when a rounded coordinate has changed;
\* old is the rounded rectangle before the step
redrawMovedSlider(s, old, type) ==
  IF RoundedCur(s.sliderAnim) = old THEN s
  ELSE rememberSliderRect(
         drawAnimated(redrawLastSelected(eraseLastSelected(s)), type),
         RoundedCur(s.sliderAnim))

\* the height component is stepped last, with the error the width call left
animateHeight(s, deltaTime, X, Y, W) ==
  [X |-> X, Y |-> Y, W |-> W,
   H |-> animateSingleValue(s, s.sliderAnim.h_cur, s.sliderAnim.h_tgt,
                            s.sliderAnim.h_vel, W.error, deltaTime)]

\* the four animateSingleValue calls of updateAnimation; the width component
\* is stepped with the height's error term
animateComponents(s, deltaTime) ==
  animateHeight(
    s, deltaTime,
    animateSingleValue(s, s.sliderAnim.x_cur, s.sliderAnim.x_tgt,
                       s.sliderAnim.x_vel, s.sliderAnim.x_err, deltaTime),
    animateSingleValue(s, s.sliderAnim.y_cur, s.sliderAnim.y_tgt,
                       s.sliderAnim.y_vel, s.sliderAnim.y_err, deltaTime),
    animateSingleValue(s, s.sliderAnim.w_cur, s.sliderAnim.w_tgt,
                       s.sliderAnim.w_vel, s.sliderAnim.h_err, deltaTime))

\* what the four calls leave in sliderAnim
storeComponents(s, now, c) ==
  [s EXCEPT
     !.lastAnimTime = now,
     !.sliderAnim =
        [@ EXCEPT
           !.x_cur = c.X.current, !.x_vel = c.X.velocity, !.x_err = c.X.error,
           !.y_cur = c.Y.current, !.y_vel = c.Y.velocity, !.y_err = c.Y.error,
           !.w_cur = c.W.current, !.w_vel = c.W.velocity,
           !.h_cur = c.H.current, !.h_vel = c.H.velocity, !.h_err = c.H.error]]

animationFinished(s, finished) ==
  IF finished
  THEN [s EXCEPT !.animationActive = FALSE, !.needFullRedraw = TRUE]
  ELSE s

positionDone(c) == c.X.done /\ c.Y.done

\* xDone && yDone && wDone && hDone
allDone(c) == c.X.done /\ c.Y.done /\ c.W.done /\ c.H.done

updateAnimationStep(s, now, type, c) ==
  animationFinished(
    redrawMovedSlider(storeComponents(s, now, c), RoundedCur(s.sliderAnim), type),
    allDone(c))

updateAnimation(s, now, type) ==
  IF ~s.animationActive THEN s
  ELSE IF now - s.lastAnimTime < s.animInterval THEN s
  ELSE updateAnimationStep(
         s, now, type,
         animateComponents(s, DeltaTime(s, now - s.lastAnimTime)))

(***************************************************************************)
(* MenuSystem: drawing and the redraw scheduler                            *)
(***************************************************************************)
\* capacity of menuHistory, menuSizeHistory and selectedIndexHistory
HistorySize == 10

currentTitleStr(s) ==
  IF s.menuLevel = 0 THEN "Root Menu"
  ELSE IF /\ s.menuLevel - 1 < HistorySize
          /\ s.selectedIndexHistory[s.menuLevel - 1]
               < s.menuSizeHistory[s.menuLevel - 1]
  THEN ItemAt(s.menuHistory[s.menuLevel - 1],
              s.selectedIndexHistory[s.menuLevel - 1]).label
  ELSE "ERROR"

drawTitleText(s, title, force) ==
  IF s.lastTitle # title \/ force \/ s.needFullRedraw
  THEN [Log(s, Draw("titleText", 0, 0, s.screenWidth, s.actualTitleAreaHeight))
          EXCEPT !.lastTitle = title]
  ELSE s

drawTitleDecorator(s) ==
  Log(s, Draw("titleDecorator", s.currentTitleDecoratorX, 0,
              s.titleDecoratorW, s.titleDecoratorW))

drawTitle(s, forceRedraw, forceTextRedraw) ==
  drawTitleDecorator(
    drawTitleText(s, currentTitleStr(s), forceRedraw \/ forceTextRedraw))

drawScrollbar(s) ==
  IF s.currentMenuSize <= s.actualMaxDisplayItems \/ s.actualMaxDisplayItems = 0
  THEN s
  ELSE Log(s, Draw("scrollbar", s.startIndex, 0, 0, 0))

RECURSIVE drawItemsFrom(_, _, _)
\* the loop over the visible rows of a full repaint
drawItemsFrom(s, i, endIndex) ==
  IF i >= endIndex THEN s
  ELSE drawItemsFrom(
         IF i # s.selectedIndex THEN drawMenuItem(s, i, FALSE)
         ELSE Log(s, Draw("clearItem", i, 0, 0, 0)),
         i + 1, endIndex)

\* min(startIndex + actualMaxDisplayItems, currentMenuSize)
visibleEnd(s) ==
  IF U8(s.startIndex + s.actualMaxDisplayItems) < s.currentMenuSize
  THEN U8(s.startIndex + s.actualMaxDisplayItems)
  ELSE s.currentMenuSize

\* drawMenuItems: the full repaint of the item area
drawAllItems(s) ==
  [drawScrollbar(
     drawItemsFrom(
       Log(s, Draw("clearItems", 0, s.actualTitleAreaHeight, s.screenWidth,
                   s.screenHeight - s.actualTitleAreaHeight)),
       s.startIndex, visibleEnd(s)))
     EXCEPT !.lastStartIndex = s.startIndex]

\* drawMenuItems: the item that was selected before, if it is on screen
redrawLastVisible(s) ==
  IF /\ s.lastSelectedIndex >= s.startIndex
     /\ s.lastSelectedIndex < s.startIndex + s.actualMaxDisplayItems
  THEN drawMenuItem(s, s.lastSelectedIndex, FALSE)
  ELSE s

drawMenuItemsDoneFlagOnly(s) == [s EXCEPT !.needFullRedraw = FALSE]

\* drawMenuItems: lastSelectedIndex = selectedIndex; needFullRedraw = false
drawMenuItemsDone(s) ==
  [s EXCEPT !.lastSelectedIndex = s.selectedIndex, !.needFullRedraw = FALSE]

drawMenuItems(s, forceRedraw) ==
  IF s.animationActive /\ ~forceRedraw THEN s
  ELSE drawMenuItemsDone(
         IF s.needFullRedraw \/ forceRedraw \/ s.lastStartIndex # s.startIndex
         THEN drawAllItems(s)
         ELSE IF s.lastSelectedIndex # s.selectedIndex
         THEN redrawLastVisible(eraseLastSelected(s))
         ELSE s)

drawMenuBackground(s, forceRedraw) ==
  IF forceRedraw \/ s.needFullRedraw
  THEN [Log(s, Draw("fillScreen", 0, 0, s.screenWidth, s.screenHeight))
          EXCEPT !.needFullRedraw = TRUE]
  ELSE s

drawMenuTitle(s, forceRedraw) ==
  drawTitle(s, s.needFullRedraw \/ forceRedraw, FALSE)

drawMenuBody(s, forceRedraw) ==
  drawMenuItems(s, s.needFullRedraw \/ forceRedraw)

drawMenuSlider(s) == drawAnimated(s, s.type)

drawMenu(s, forceRedraw) ==
  drawMenuSlider(
    drawMenuBody(
      drawMenuTitle(drawMenuBackground(s, forceRedraw), forceRedraw),
      forceRedraw))

titleDecoratorFinished(s, finished) ==
  IF finished
  THEN [s EXCEPT !.titleDecoratorAnimationActive = FALSE,
                 !.needFullRedraw = TRUE]
  ELSE s

updateTitleDecoratorStep(s, now, X) ==
  titleDecoratorFinished(
    drawTitle([s EXCEPT
                 !.lastTitleDecoratorAnimTime = now,
                 !.titleDecoratorAnim =
                    [@ EXCEPT !.x_cur = X.current, !.x_vel = X.velocity,
                              !.x_err = X.error],
                 !.currentTitleDecoratorX = Round(X.current)],
              FALSE, TRUE),
    X.done)

updateTitleDecoratorAnimation(s, now) ==
  IF ~s.titleDecoratorAnimationActive THEN s
  ELSE IF now - s.lastTitleDecoratorAnimTime < s.animInterval THEN s
  ELSE updateTitleDecoratorStep(
         s, now,
         animateSingleValue(s, s.titleDecoratorAnim.x_cur,
                            s.titleDecoratorAnim.x_tgt,
                            s.titleDecoratorAnim.x_vel,
                            s.titleDecoratorAnim.x_err,
                            DeltaTime(s, now - s.lastTitleDecoratorAnimTime)))

updateSlider(s, now) ==
  IF s.animationActive
  THEN IF s.type = 1 THEN updateAnimation(s, now, 1)
                     ELSE updateAnimation(s, now, 0)
  ELSE s

updateTitleDecorator(s, now) ==
  IF s.titleDecoratorAnimationActive
  THEN updateTitleDecoratorAnimation(s, now)
  ELSE s

updateRedrawEager(s) ==
  IF s.needFullRedraw THEN drawMenu(s, TRUE) ELSE s

updateRedraw(s) ==
  IF ~s.animationActive /\ ~s.titleDecoratorAnimationActive /\ s.needFullRedraw
  THEN drawMenu(s, TRUE)
  ELSE s

updateRedrawFirst(s, now) ==
  updateTitleDecorator(updateSlider(updateRedraw(s), now), now)

update(s, now) == updateRedraw(updateTitleDecorator(updateSlider(s, now), now))

(***************************************************************************)
(* MenuSystem: navigation                                                  *)
(***************************************************************************)
Beep(s, tone) == [s EXCEPT !.buzzer = Append(@, tone)]

SnapToSelectionTween(s) ==
  LET s1 == [s EXCEPT !.needFullRedraw = TRUE]
      targetRect == calculateSliderTargetRect(s1, s1.selectedIndex)
  IN [s1 EXCEPT !.sliderAnim = SetTgt(@, FxRect(targetRect)),
                !.animationActive = TRUE]

\* the scroll "snap" of selectNext/selectPrev: the slider jumps to the
\* selection's rectangle and the animation is switched off
SnapToSelection(s) ==
  LET s1 == [s EXCEPT !.needFullRedraw = TRUE]
      targetRect == calculateSliderTargetRect(s1, s1.selectedIndex)
  IN [s1 EXCEPT !.sliderAnim = SetCur(@, FxRect(targetRect)),
                !.animationActive = FALSE]

\* the boundary tests that make selectNext and selectPrev return at once
selectNextAtEnd(s) ==
  s.currentMenuSize = 0 \/ s.selectedIndex >= s.currentMenuSize - 1

selectPrevAtStart(s) == s.currentMenuSize = 0 \/ s.selectedIndex = 0

\* the return taken at a boundary
boundaryReturnBeep(s) == Beep(s, "beep")

boundaryReturn(s) == s

OperationBannedInWindow(s) == s.BanOperation = TRUE /\ s.type # 0

\* if(BanOperation == true) return;
OperationBanned(s) == s.BanOperation = TRUE

scrollDownStartPage(s) == s.selectedIndex

\* startIndex = selectedIndex - actualMaxDisplayItems + 1
scrollDownStart(s) == U8(s.selectedIndex - s.actualMaxDisplayItems + 1)

selectNext(s, now) ==
  IF selectNextAtEnd(s) THEN boundaryReturn(s)
  ELSE IF OperationBanned(s) THEN s
  ELSE
    LET s1 == Beep([s EXCEPT !.selectedIndex = U8(@ + 1)], "beep")
    IN IF s1._sliderDisplayMode = SLIDER_DISPLAY_FIXED_TOP
       THEN SnapToSelection([s1 EXCEPT !.startIndex = s1.selectedIndex])
       ELSE IF s1.selectedIndex >= s1.startIndex + s1.actualMaxDisplayItems
       THEN SnapToSelection([s1 EXCEPT !.startIndex = scrollDownStart(s1)])
       ELSE startAnimationTo(s1, now,
                             calculateSliderTargetRect(s1, s1.selectedIndex))

selectPrev(s, now) ==
  IF selectPrevAtStart(s) THEN boundaryReturn(s)
  ELSE IF OperationBanned(s) THEN s
  ELSE
    LET s1 == Beep([s EXCEPT !.selectedIndex = @ - 1], "beep")
    IN IF s1._sliderDisplayMode = SLIDER_DISPLAY_FIXED_TOP
       THEN SnapToSelection([s1 EXCEPT !.startIndex = s1.selectedIndex])
       ELSE IF s1.selectedIndex < s1.startIndex
       THEN SnapToSelection([s1 EXCEPT !.startIndex = s1.selectedIndex])
       ELSE startAnimationTo(s1, now,
                             calculateSliderTargetRect(s1, s1.selectedIndex))

\* the title decorator's entrance tween, from fromX (pixels) to its resting x
ArmTitleDecorator(s, now, fromX) ==
  [s EXCEPT
     !.titleDecoratorAnim = [x_cur |-> Fx(fromX), x_tgt |-> Fx(s.titleDecoratorX),
                             x_vel |-> 0, x_err |-> 0],
     !.currentTitleDecoratorX = fromX,
     !.titleDecoratorAnimationActive = TRUE,
     !.lastTitleDecoratorAnimTime = now]

\* what select() and back() do once the tree position has changed
EnterMenuKeepSnapshot(s, now) ==
  LET s1 == IF s.currentMenuSize > 0
            THEN startAnimationTo(s, now,
                                  calculateSliderTargetRect(s, s.selectedIndex))
            ELSE [s EXCEPT !.sliderAnim =
                    SetTgt(SetCur(@, PlaceholderRect(s)), PlaceholderRect(s))]
  IN [s1 EXCEPT !.animationActive = TRUE, !.needFullRedraw = TRUE]

EnterMenuKeepCur(s, now) ==
  LET s1 == IF s.currentMenuSize > 0
            THEN startAnimationTo(s, now,
                                  calculateSliderTargetRect(s, s.selectedIndex))
            ELSE [s EXCEPT !.sliderAnim = SetTgt(@, PlaceholderRect(s))]
  IN [s1 EXCEPT !.animationActive = TRUE,
                !.needFullRedraw = TRUE,
                !.lastSelectedIndex = -1,
                !.lastStartIndex = -1,
                !.lastTitle = ""]

EnterMenu(s, now) ==
  LET s1 == IF s.currentMenuSize > 0
            THEN startAnimationTo(s, now,
                                  calculateSliderTargetRect(s, s.selectedIndex))
            ELSE [s EXCEPT !.sliderAnim =
                    SetTgt(SetCur(@, PlaceholderRect(s)), PlaceholderRect(s))]
  IN [s1 EXCEPT !.animationActive = TRUE,
                !.needFullRedraw = TRUE,
                !.lastSelectedIndex = -1,
                !.lastStartIndex = -1,
                !.lastTitle = ""]

\* the deepest level select() descends from is MaxDescendLevel - 1
MaxDescendLevel == 9

backRestoreFirst(s) ==
  [s EXCEPT !.currentMenu = s.menuHistory[s.menuLevel],
            !.currentMenuSize = s.menuSizeHistory[s.menuLevel],
            !.selectedIndex = 0]

\* back(): the tree position comes back from the history
backRestore(s) ==
  [s EXCEPT !.currentMenu = s.menuHistory[s.menuLevel],
            !.currentMenuSize = s.menuSizeHistory[s.menuLevel],
            !.selectedIndex = s.selectedIndexHistory[s.menuLevel]]

backClampStartNone(s, visible) == visible

\* back(): startIndex does not go beyond the bottom of the menu
backClampStart(s, visible) ==
  IF visible > 0 /\ visible + s.actualMaxDisplayItems > s.currentMenuSize
  THEN Max(0, s.currentMenuSize - s.actualMaxDisplayItems)
  ELSE visible

backStartIndexStale(s) == s.startIndex

\* back(): the start index for the restored selection
backStartIndex(s) ==
  IF s._sliderDisplayMode = SLIDER_DISPLAY_FIXED_TOP THEN s.selectedIndex
  ELSE
    LET visible == IF s.selectedIndex >= s.startIndex + s.actualMaxDisplayItems
                   THEN U8(s.selectedIndex - s.actualMaxDisplayItems + 1)
                   ELSE IF s.selectedIndex < s.startIndex
                   THEN s.selectedIndex
                   ELSE s.startIndex
    IN backClampStart(s, visible)

backDecoratorStartRight(s) == s.screenWidth

\* where the title decorator starts when back() arms it, in pixels
backDecoratorStart(s) == -s.titleDecoratorW

BackPop(s, now) ==
  LET s1 == Beep([s EXCEPT !.menuLevel = s.menuLevel - 1], "longBeep")
      s2 == backRestore(s1)
      s3 == [s2 EXCEPT !.startIndex = backStartIndex(s2)]
  IN ArmTitleDecorator(EnterMenu(s3, now), now, backDecoratorStart(s3))

BackLeaveWindowKeepBan(s, now) ==
  LET s1 == Beep([s EXCEPT !.type = 0], "longBeep")
  IN startAnimationTo(s1, now, calculateSliderTargetRect(s1, s1.selectedIndex))

BackLeaveWindowKeepType(s, now) ==
  LET s1 == Beep(s, "longBeep")
      s2 == startAnimationTo(s1, now,
                             calculateSliderTargetRect(s1, s1.selectedIndex))
  IN [s2 EXCEPT !.BanOperation = FALSE]

BackLeaveWindow(s, now) ==
  LET s1 == Beep([s EXCEPT !.type = 0], "longBeep")
      s2 == startAnimationTo(s1, now,
                             calculateSliderTargetRect(s1, s1.selectedIndex))
  IN [s2 EXCEPT !.BanOperation = FALSE]

back(s, now) ==
  IF s.menuLevel > 0
  THEN IF s.type = 0 THEN BackPop(s, now) ELSE BackLeaveWindow(s, now)
  ELSE s

\* the callbacks of the sketch's menu items
Invoke(s, callback, now) ==
  CASE callback = "BuzzCallback" -> [s EXCEPT !.TypeNum = 1]
    [] callback = "DelayCallBack" -> [s EXCEPT !.TypeNum = 2]
    [] callback = "Back" -> back(s, now)
    [] OTHER -> s

intentHandledKeepFlag(s) == [s EXCEPT !.BanOperation = TRUE]

\* TypeNum = 0; BanOperation = true; at the end of the cases 1 and 2
intentHandled(s) == [s EXCEPT !.TypeNum = 0, !.BanOperation = TRUE]

\* the switch on TypeNum after the callback has run
SelectSwitch(s, now) ==
  IF s.TypeNum = 1
  THEN LET WinStartX == (s.screenWidth * 5) \div 100
           WinStartY == (s.screenHeight * 25) \div 100
           WinWidth == (s.screenWidth * 9) \div 10
           WinHeight == (s.screenHeight * 5) \div 10
           s1 == [s EXCEPT !.type = 1]
           s2 == IF ~s1.animationActive
                 THEN Log(s1, Draw("fillRect", (WinStartX * 5) \div 100,
                                   (WinStartY * 5) \div 10,
                                   (WinWidth * 9) \div 10, 5))
                 ELSE s1
           s3 == startAnimation(s2, now, WinStartX, WinStartY, WinWidth, WinHeight)
       IN intentHandled(s3)
  ELSE IF s.TypeNum = 2
  THEN intentHandled(s)
  ELSE s

canDescendToCapacity(s) == s.menuLevel <= MaxDescendLevel

canDescend(s) == s.menuLevel < MaxDescendLevel

pushHistoryAfterIncrement(s) ==
  [s EXCEPT !.menuHistory[s.menuLevel + 1] = s.currentMenu,
            !.menuSizeHistory[s.menuLevel + 1] = s.currentMenuSize,
            !.selectedIndexHistory[s.menuLevel + 1] = s.selectedIndex,
            !.menuLevel = s.menuLevel + 1]

pushHistoryNoSize(s) ==
  [s EXCEPT !.menuHistory[s.menuLevel] = s.currentMenu,
            !.selectedIndexHistory[s.menuLevel] = s.selectedIndex,
            !.menuLevel = s.menuLevel + 1]

\* select(): the position left behind goes into the history
pushHistory(s) ==
  [s EXCEPT !.menuHistory[s.menuLevel] = s.currentMenu,
            !.menuSizeHistory[s.menuLevel] = s.currentMenuSize,
            !.selectedIndexHistory[s.menuLevel] = s.selectedIndex,
            !.menuLevel = s.menuLevel + 1]

selectDecoratorStartLeft(s) == -s.titleDecoratorW

\* where the title decorator starts when select() arms it, in pixels
selectDecoratorStart(s) == s.screenWidth

SelectDescend(s, selectedItem, now) ==
  IF canDescend(s)
  THEN LET s1 == pushHistory(s)
           s2 == [s1 EXCEPT !.currentMenu = selectedItem.subMenu,
                            !.currentMenuSize = selectedItem.subMenuSize,
                            !.selectedIndex = 0,
                            !.startIndex = 0]
       IN ArmTitleDecorator(EnterMenu(s2, now), now, selectDecoratorStart(s2))
  ELSE s

selectBeepLong(s) == Beep(s, "longBeep")

\* buzzer->beep(20,1000,buzz_vol): the tone of an accepted select()
selectBeep(s) == Beep(s, "beep")

selectLive(s, now) ==
  IF s.currentMenu = NULL \/ s.selectedIndex >= s.currentMenuSize THEN s
  ELSE IF OperationBanned(s) THEN s
  ELSE
    LET selectedItem == ItemAt(s.currentMenu, s.selectedIndex)
        s1 == selectBeep(s)
        s2 == IF selectedItem.callback # "NULL"
              THEN SelectSwitch(Invoke(s1, selectedItem.callback, now), now)
              ELSE s1
    IN IF hasSubMenu(ItemAt(s2.currentMenu, s2.selectedIndex))
       THEN SelectDescend(s2, ItemAt(s2.currentMenu, s2.selectedIndex), now)
       ELSE s2

select(s, now) ==
  IF s.currentMenu = NULL \/ s.selectedIndex >= s.currentMenuSize THEN s
  ELSE IF OperationBanned(s) THEN s
  ELSE
    LET selectedItem == ItemAt(s.currentMenu, s.selectedIndex)
        s1 == selectBeep(s)
        s2 == IF selectedItem.callback # "NULL"
              THEN SelectSwitch(Invoke(s1, selectedItem.callback, now), now)
              ELSE s1
    IN IF hasSubMenu(selectedItem)
       THEN SelectDescend(s2, selectedItem, now)
       ELSE s2

(***************************************************************************)
(* MenuSystem: construction and configuration                              *)
(***************************************************************************)
ZeroAnim ==
  [x_cur |-> 0, y_cur |-> 0, w_cur |-> 0, h_cur |-> 0,
   x_tgt |-> 0, y_tgt |-> 0, w_tgt |-> 0, h_tgt |-> 0,
   x_vel |-> 0, y_vel |-> 0, w_vel |-> 0, h_vel |-> 0,
   x_err |-> 0, y_err |-> 0, w_err |-> 0, h_err |-> 0]

\* the object `menu` of the sketch has static storage: every member is zero
\* before the constructor runs
ZeroObject ==
  [screenWidth |-> 0, screenHeight |-> 0, TypeNum |-> 0,
   currentMenu |-> NULL, currentMenuSize |-> 0, selectedIndex |-> 0,
   startIndex |-> 0, menuLevel |-> 0,
   menuHistory |-> [i \in 0 .. HistorySize - 1 |-> NULL],
   menuSizeHistory |-> [i \in 0 .. HistorySize - 1 |-> 0],
   selectedIndexHistory |-> [i \in 0 .. HistorySize - 1 |-> 0],
   actualTitleAreaHeight |-> 0, titleDecoratorW |-> 0, titleDecoratorX |-> 0,
   titleBottomMargin |-> 0, actualMenuItemHeight |-> 0,
   actualMenuItemSpacing |-> 0, menuItemsAreaY |-> 0, menuItemsXOffset |-> 0,
   menuItemTextXPadding |-> 0, menuItemBorderOffset |-> 0,
   menuItemArrowWidth |-> 0, menuItemDefaultMaxWidth |-> 0,
   actualMaxDisplayItems |-> 0, menuFontSize |-> 0, titleFontSize |-> 0,
   sliderAnim |-> ZeroAnim, animationActive |-> FALSE, lastAnimTime |-> 0,
   animDuration |-> 0, animInterval |-> 0, _animationForm |-> 0,
   type |-> 0, BanOperation |-> FALSE,
   titleDecoratorAnim |-> [x_cur |-> 0, x_tgt |-> 0, x_vel |-> 0, x_err |-> 0],
   titleDecoratorAnimationActive |-> FALSE, lastTitleDecoratorAnimTime |-> 0,
   currentTitleDecoratorX |-> 0,
   lastSelectedIndex |-> 0, lastStartIndex |-> 0, lastTitle |-> "",
   needFullRedraw |-> FALSE,
   lastSelectedRect |-> [x |-> 0, y |-> 0, width |-> 0, height |-> 0,
                         valid |-> FALSE],
   _sliderDisplayMode |-> SLIDER_DISPLAY_FOLLOW_SELECTION,
   _useCustomSliderPosition |-> FALSE, _useCustomSliderSize |-> FALSE,
   _customSliderX |-> 0, _customSliderY |-> 0,
   _customSliderWidth |-> 0, _customSliderHeight |-> 0,
   buzzer |-> << >>, tft |-> << >>]

MenuSystem ==
  LET s0 == [ZeroObject EXCEPT
               !.screenWidth = tftWidth, !.screenHeight = tftHeight,
               !.titleBottomMargin = 10,
               !.menuFontSize = 1, !.titleFontSize = 2,
               !.animDuration = 200, !.animInterval = 15, !._animationForm = 1]
      r == RectF(Fx(s0.menuItemsXOffset), Fx(s0.menuItemsAreaY),
                 (Fx(s0.screenWidth) * 8) \div 10, Fx(s0.actualMenuItemHeight))
      s1 == [s0 EXCEPT
               !.sliderAnim = SetTgt(SetCur(@, r), r),
               !.lastSelectedIndex = -1, !.lastStartIndex = -1,
               !.needFullRedraw = TRUE,
               !._customSliderX = -1, !._customSliderY = -1,
               !._customSliderWidth = -1, !._customSliderHeight = -1]
      s2 == calculateLayoutParameters(s1)
  IN [s2 EXCEPT !.currentTitleDecoratorX = s2.titleDecoratorX,
                !.titleDecoratorAnim.x_cur = Fx(s2.titleDecoratorX),
                !.titleDecoratorAnim.x_tgt = Fx(s2.titleDecoratorX)]

\* The source assigns the target's width and height from initialRect.w_cur
\* and initialRect.h_cur, members RectF does not have; the model takes the
\* rectangle's width and height, as the two lines before them do for x and y.
setRootMenu(s, rootMenu, size) ==
  LET s1 == calculateLayoutParameters(
              [s EXCEPT !.currentMenu = rootMenu, !.currentMenuSize = size,
                        !.selectedIndex = 0, !.startIndex = 0, !.menuLevel = 0])
      r == IF s1.currentMenuSize > 0
           THEN FxRect(calculateSliderTargetRect(s1, 0))
           ELSE PlaceholderRect(s1)
  IN [s1 EXCEPT
        !.sliderAnim = SetTgt(SetCur(@, r), r),
        !.needFullRedraw = TRUE,
        !.lastSelectedIndex = -1, !.lastStartIndex = -1, !.lastTitle = "",
        !.lastSelectedRect.valid = FALSE,
        !.titleDecoratorAnimationActive = FALSE,
        !.currentTitleDecoratorX = s1.titleDecoratorX,
        !.titleDecoratorAnim.x_cur = Fx(s1.titleDecoratorX),
        !.titleDecoratorAnim.x_tgt = Fx(s1.titleDecoratorX)]

setSliderDisplayMode(s, mode) ==
  LET s1 == [s EXCEPT !._sliderDisplayMode = mode, !.needFullRedraw = TRUE]
      r == FxRect(calculateSliderTargetRect(s1, s1.selectedIndex))
      s2 == IF s1.currentMenuSize > 0
            THEN [s1 EXCEPT !.sliderAnim = SetTgt(SetCur(@, r), r)]
            ELSE s1
  IN [s2 EXCEPT !.animationActive = FALSE]

setCustomSliderTarget(s, now, x, y, width, height) ==
  LET s1 == [s EXCEPT
               !._customSliderX = x, !._customSliderY = y,
               !._customSliderWidth = width, !._customSliderHeight = height,
               !._useCustomSliderPosition = (x # -1 \/ y # -1),
               !._useCustomSliderSize = (width # -1 \/ height # -1)]
  IN IF s1._sliderDisplayMode = SLIDER_DISPLAY_FIXED_TOP /\ s1.currentMenuSize > 0
     THEN startAnimationTo(s1, now,
                           calculateSliderTargetRect(s1, s1.selectedIndex))
     ELSE s1

setSliderAnimationDuration(s, duration) == [s EXCEPT !.animDuration = duration]

setSliderAnimationInterval(s, interval) == [s EXCEPT !.animInterval = interval]

setSliderAnimationForm(s, form) ==
  IF form = 1 \/ form = 2 THEN [s EXCEPT !._animationForm = form] ELSE s

setMenuFontSize(s, size) ==
  [calculateLayoutParameters(
     [s EXCEPT !.menuFontSize = IF size = 0 THEN 1 ELSE size])
   EXCEPT !.needFullRedraw = TRUE]

setTitleFontSize(s, size) ==
  [calculateLayoutParameters(
     [s EXCEPT !.titleFontSize = IF size = 0 THEN 1 ELSE size])
   EXCEPT !.needFullRedraw = TRUE]

(***************************************************************************)
(* The sketch: setup() and the branches of loop()                          *)
(***************************************************************************)
\* the animation duration set before setRootMenu, in milliseconds: equal to
\* animInterval, so that a linear tween reaches its target in one step
SetupAnimDuration == 15

setup(rootMenu, mode) ==
  drawMenu(
    setSliderDisplayMode(
      setRootMenu(setSliderAnimationDuration(MenuSystem, SetupAnimDuration),
                  rootMenu, Len(MenuArray(rootMenu))),
      mode),
    FALSE)

\* a handler starts with the records of the buzzer and the display empty
Fresh(s) == [s EXCEPT !.buzzer = << >>, !.tft = << >>]

\* The observer of select()/back() runs: it stands for a caller that makes n
\* select() calls on items with children and then back() calls, and keeps what
\* it saw before the first of them.  It is no part of the MenuSystem object.
ProbeOff ==
  [phase |-> "off", n |-> 0, m |-> 0, refused |-> FALSE, banned |-> FALSE,
   currentMenu |-> NULL, currentMenuSize |-> 0, selectedIndex |-> 0,
   menuLevel |-> 0]

Init ==
  /\ \E rootMenu \in {MainMenu, ChainTop},
        mode \in {SLIDER_DISPLAY_FOLLOW_SELECTION, SLIDER_DISPLAY_FIXED_TOP} :
       menu = setup(rootMenu, mode)
  /\ op = "setup"
  /\ probe = ProbeOff

\* Time is kept relative to the present: millis() reads 0 and a stored time
\* is minus its age.  The code reads stored times only through their
\* difference to millis(), and treats all differences beyond both the clamp
\* and the tick interval alike, so ages stop growing there.
millis == 0

OldestTime(s) == -Max(ClampMillis, s.animInterval)

Elapse(s, d) ==
  [s EXCEPT !.lastAnimTime = Max(@ - d, OldestTime(s)),
            !.lastTitleDecoratorAnimTime = Max(@ - d, OldestTime(s))]

Call(name, result) ==
  /\ menu' = result
  /\ op' = name
  /\ UNCHANGED probe

LoopSelectNext == Call("selectNext", selectNext(Fresh(menu), millis))

LoopSelectPrev == Call("selectPrev", selectPrev(Fresh(menu), millis))

LoopSelect == Call("select", select(Fresh(menu), millis))

LoopBack == Call("back", back(Fresh(menu), millis))

LoopUpdate == Call("update", update(Fresh(menu), millis))

\* time passes between two calls
Tick ==
  /\ menu' = Elapse(menu, TickMillis)
  /\ UNCHANGED <<op, probe>>

Next ==
  \/ LoopSelectNext
  \/ LoopSelectPrev
  \/ LoopSelect
  \/ LoopBack
  \/ LoopUpdate
  \/ Tick

Spec == Init /\ [][Next]_vars

\* the same loop over the root array whose items differ in width
InitWide ==
  /\ \E mode \in {SLIDER_DISPLAY_FOLLOW_SELECTION, SLIDER_DISPLAY_FIXED_TOP} :
       menu = setup(WideMenu, mode)
  /\ op = "setup"
  /\ probe = ProbeOff

SpecWide == InitWide /\ [][Next]_vars

\* ---------------------------------------------------------------------
\* Runs of select() and back() alone, watched by the observer
\* ---------------------------------------------------------------------
MaxRun == 3

Observe(name, result, p) ==
  /\ menu' = result
  /\ op' = name
  /\ probe' = p

SelectedHasChildren(s) ==
  /\ s.currentMenu # NULL
  /\ s.selectedIndex < s.currentMenuSize
  /\ hasSubMenu(ItemAt(s.currentMenu, s.selectedIndex))

ProbeStart(s) ==
  [ProbeOff EXCEPT !.phase = "select",
                   !.currentMenu = s.currentMenu,
                   !.currentMenuSize = s.currentMenuSize,
                   !.selectedIndex = s.selectedIndex,
                   !.menuLevel = s.menuLevel]

\* one more select() call of the run, on the state s it is made in
ProbeSelect(p, s) ==
  [p EXCEPT !.n = @ + 1,
            !.refused = @ \/ (~OperationBanned(s) /\ ~canDescend(s)),
            !.banned = @ \/ OperationBanned(s)]

\* a select() on an item with children, outside window mode, opens or extends
\* a run; any other select() ends the observation
RunSelect ==
  Observe("select", select(Fresh(menu), millis),
          IF SelectedHasChildren(menu) /\ menu.type = 0
          THEN IF probe.phase = "select" /\ probe.n < MaxRun
               THEN ProbeSelect(probe, menu)
               ELSE ProbeSelect(ProbeStart(menu), menu)
          ELSE ProbeOff)

\* a back() outside window mode, while the run still owes one, is counted
RunBack ==
  Observe("back", back(Fresh(menu), millis),
          IF probe.phase # "off" /\ probe.m < probe.n /\ menu.type = 0
          THEN [probe EXCEPT !.phase = "back", !.m = @ + 1]
          ELSE ProbeOff)

RunSelectNext ==
  Observe("selectNext", selectNext(Fresh(menu), millis), ProbeOff)

RunSelectPrev ==
  Observe("selectPrev", selectPrev(Fresh(menu), millis), ProbeOff)

NextRun ==
  \/ RunSelect
  \/ RunBack
  \/ RunSelectNext
  \/ RunSelectPrev

SpecRun == Init /\ [][NextRun]_vars

\* ---------------------------------------------------------------------
\* Runs of selectNext() from the top of a menu, counted by the observer
\* ---------------------------------------------------------------------
\* the observer's count after a call: a run starts wherever the selection
\* and the viewport are both at 0, and goes on with every selectNext() made
\* before the end of the list
ProbeScroll(name, before, after) ==
  IF after.selectedIndex = 0 /\ after.startIndex = 0
  THEN [ProbeOff EXCEPT !.phase = "next"]
  ELSE IF name = "selectNext" /\ probe.phase = "next" /\ ~selectNextAtEnd(before)
  THEN [probe EXCEPT !.n = @ + 1]
  ELSE ProbeOff

Scroll(name, result) == Observe(name, result, ProbeScroll(name, menu, result))

ScrollSelectNext == Scroll("selectNext", selectNext(Fresh(menu), millis))

ScrollSelectPrev == Scroll("selectPrev", selectPrev(Fresh(menu), millis))

ScrollSelect == Scroll("select", select(Fresh(menu), millis))

ScrollBack == Scroll("back", back(Fresh(menu), millis))

NextScroll ==
  \/ ScrollSelectNext
  \/ ScrollSelectPrev
  \/ ScrollSelect
  \/ ScrollBack

InitScroll ==
  /\ \E rootMenu \in {MainMenu, ChainTop, WideMenu},
        mode \in {SLIDER_DISPLAY_FOLLOW_SELECTION, SLIDER_DISPLAY_FIXED_TOP} :
       menu = setup(rootMenu, mode)
  /\ op = "setup"
  /\ probe = [ProbeOff EXCEPT !.phase = "next"]

SpecScroll == InitScroll /\ [][NextScroll]_vars

\* ---------------------------------------------------------------------
\* The same calls, and setSliderDisplayMode() called between them
\* ---------------------------------------------------------------------
SwitchMode ==
  \E mode \in {SLIDER_DISPLAY_FOLLOW_SELECTION, SLIDER_DISPLAY_FIXED_TOP} :
    Scroll("setSliderDisplayMode", setSliderDisplayMode(Fresh(menu), mode))

NextMode ==
  \/ NextScroll
  \/ SwitchMode

SpecMode == InitScroll /\ [][NextMode]_vars

\* ---------------------------------------------------------------------
\* The same calls, and setCustomSliderTarget() called between them
\* ---------------------------------------------------------------------
\* arguments of setCustomSliderTarget: all defaults, a position, a size, and
\* one coordinate of each
CustomTargets ==
  { RectF(-1, -1, -1, -1), RectF(20, 30, -1, -1), RectF(-1, -1, 100, 10),
    RectF(-1, 40, 120, -1) }

SetCustomTarget ==
  \E c \in CustomTargets :
    Scroll("setCustomSliderTarget",
           setCustomSliderTarget(Fresh(menu), millis,
                                 c.x, c.y, c.width, c.height))

NextCustom ==
  \/ NextScroll
  \/ SetCustomTarget

SpecCustom == InitScroll /\ [][NextCustom]_vars

\* ---------------------------------------------------------------------
\* update() called at a constant interval after a target has been armed
\* ---------------------------------------------------------------------
\* animDuration as the constructor leaves it, in milliseconds
DefaultAnimDuration == 200

\* the intervals between two update() calls, in milliseconds: the animation
\* interval, one between it and the clamp, and the clamp
AnimIntervals == {15, 50, ClampMillis}

\* number of update() calls followed
MaxAnimTicks == 64

\* distance from the target, in pixels, up to which a component is followed
AnimRange == 640

\* the states in which the caller starts ticking: a tween to the next row
\* (armed in follow-selection mode only), and the window sequence requested
\* from the last item of the main menu
ArmedStates(s) ==
  { a \in { selectNext(s, millis),
            select(selectNext(selectNext(selectNext(s, millis), millis), millis),
                   millis) } : a.animationActive }

InitAnim ==
  /\ \E form \in {1, 2},
        mode \in {SLIDER_DISPLAY_FOLLOW_SELECTION, SLIDER_DISPLAY_FIXED_TOP},
        dt \in AnimIntervals :
       /\ menu \in ArmedStates(
                     setSliderAnimationForm(
                       setSliderAnimationDuration(setup(MainMenu, mode),
                                                  DefaultAnimDuration),
                       form))
       /\ probe = [dt |-> dt, ticks |-> 0]
  /\ op = "startAnimation"

InRange(a) ==
  /\ Abs(a.x_cur - a.x_tgt) <= Fx(AnimRange)
  /\ Abs(a.y_cur - a.y_tgt) <= Fx(AnimRange)
  /\ Abs(a.w_cur - a.w_tgt) <= Fx(AnimRange)
  /\ Abs(a.h_cur - a.h_tgt) <= Fx(AnimRange)

\* the interval passes and loop() calls update()
AnimTick ==
  /\ probe.ticks < MaxAnimTicks
  /\ InRange(menu.sliderAnim)
  /\ menu' = update(Fresh(Elapse(menu, probe.dt)), millis)
  /\ op' = "update"
  /\ probe' = [probe EXCEPT !.ticks = @ + 1]

\* a component has left the range: its further values are not followed, the
\* calls are only counted
AnimAway ==
  /\ probe.ticks < MaxAnimTicks
  /\ ~InRange(menu.sliderAnim)
  /\ probe' = [probe EXCEPT !.ticks = @ + 1]
  /\ UNCHANGED <<menu, op>>

NextAnim ==
  \/ AnimTick
  \/ AnimAway

SpecAnim == InitAnim /\ [][NextAnim]_vars

\* ---------------------------------------------------------------------
\* The same ticks, with one navigation call made while the tween is under way
\* ---------------------------------------------------------------------
RearmIntervals == {15, 50}

\* tweens under way: to the next row, into a submenu, to the window at the
\* root and to the window one level down
RearmStates(s) ==
  { a \in { selectNext(s, millis),
            select(selectNext(s, millis), millis),
            select(selectNext(selectNext(selectNext(s, millis), millis), millis),
                   millis),
            select(selectNext(select(selectNext(selectNext(s, millis), millis),
                                     millis),
                              millis),
                   millis) } : a.animationActive }

InitRearm ==
  /\ \E form \in {1, 2},
        mode \in {SLIDER_DISPLAY_FOLLOW_SELECTION, SLIDER_DISPLAY_FIXED_TOP},
        root \in {MainMenu, WideMenu},
        dt \in RearmIntervals :
       /\ menu \in RearmStates(
                     setSliderAnimationForm(
                       setSliderAnimationDuration(setup(root, mode),
                                                  DefaultAnimDuration),
                       form))
       /\ probe = [dt |-> dt, ticks |-> 0, rearmed |-> FALSE,
                   from |-> CurRect(menu.sliderAnim),
                   old |-> TgtRect(menu.sliderAnim)]
  /\ op = "startAnimation"

\* a call made between two ticks, once per run
Rearm(name, result) ==
  /\ menu.animationActive
  /\ ~probe.rearmed
  /\ menu' = result
  /\ op' = name
  /\ probe' = [probe EXCEPT !.rearmed = TRUE,
                            !.from = CurRect(menu.sliderAnim),
                            !.old = TgtRect(menu.sliderAnim)]

RearmSelectNext == Rearm("selectNext", selectNext(Fresh(menu), millis))

RearmSelectPrev == Rearm("selectPrev", selectPrev(Fresh(menu), millis))

RearmSelect == Rearm("select", select(Fresh(menu), millis))

RearmBack == Rearm("back", back(Fresh(menu), millis))

NextRearm ==
  \/ AnimTick
  \/ RearmSelectNext
  \/ RearmSelectPrev
  \/ RearmSelect
  \/ RearmBack

SpecRearm == InitRearm /\ [][NextRearm]_vars

\* ---------------------------------------------------------------------
\* The calls that recompute the layout, in any order
\* ---------------------------------------------------------------------
\* text sizes a sketch passes to setMenuFontSize and setTitleFontSize
FontSizes == {0, 1, 2, 3, 4, 8}

InitLayout ==
  /\ menu = MenuSystem
  /\ op = "MenuSystem"
  /\ probe = ProbeOff

LayoutSetRootMenu ==
  \E rootMenu \in {MainMenu, WideMenu, EmptyMenu} :
    Call("setRootMenu",
         setRootMenu(Fresh(menu), rootMenu, Len(MenuArray(rootMenu))))

LayoutSetMenuFontSize ==
  \E size \in FontSizes :
    Call("setMenuFontSize", setMenuFontSize(Fresh(menu), size))

LayoutSetTitleFontSize ==
  \E size \in FontSizes :
    Call("setTitleFontSize", setTitleFontSize(Fresh(menu), size))

NextLayout ==
  \/ LayoutSetRootMenu
  \/ LayoutSetMenuFontSize
  \/ LayoutSetTitleFontSize

SpecLayout == InitLayout /\ [][NextLayout]_vars

\* ---------------------------------------------------------------------
\* Two sketches side by side that differ in the slider's height only
\* ---------------------------------------------------------------------
\* heights handed to setCustomSliderTarget by the second sketch, in pixels
PairHeights == {10, 24}

\* setup() of a sketch with the three-item root array, in follow mode
PairSetup(form) ==
  setSliderAnimationForm(
    setSliderAnimationDuration(
      setup(WideMenu, SLIDER_DISPLAY_FOLLOW_SELECTION), DefaultAnimDuration),
    form)

\* the second sketch sets a custom height before the tween is armed (the
\* target height differs), or sets it, re-applies the display mode and
\* takes it back (the current height differs)
PairOther(s, kind, height) ==
  IF kind = "target"
  THEN selectNext(setCustomSliderTarget(s, millis, -1, -1, -1, height), millis)
  ELSE selectNext(
         setCustomSliderTarget(
           setSliderDisplayMode(
             setCustomSliderTarget(s, millis, -1, -1, -1, height),
             SLIDER_DISPLAY_FOLLOW_SELECTION),
           millis, -1, -1, -1, -1),
         millis)

InitPair ==
  /\ \E form \in {1, 2}, dt \in RearmIntervals,
        kind \in {"target", "current"}, height \in PairHeights :
       /\ menu = selectNext(PairSetup(form), millis)
       /\ probe = [dt |-> dt, ticks |-> 0,
                   other |-> PairOther(PairSetup(form), kind, height)]
  /\ op = "startAnimation"

\* the interval passes and both loops call update()
PairTick ==
  /\ probe.ticks < MaxAnimTicks
  /\ menu' = update(Fresh(Elapse(menu, probe.dt)), millis)
  /\ op' = "update"
  /\ probe' = [probe EXCEPT
                 !.ticks = @ + 1,
                 !.other = update(Fresh(Elapse(@, probe.dt)), millis)]

NextPair == PairTick

SpecPair == InitPair /\ [][NextPair]_vars

\* ---------------------------------------------------------------------
\* The loop, with an observer of the display that keeps the rectangle at
\* which the slider or the window was drawn last
\* ---------------------------------------------------------------------
NothingDrawn == [valid |-> FALSE, x |-> 0, y |-> 0, width |-> 0, height |-> 0]

\* the slider rectangle on the display after the calls of one log: a
\* fillScreen wipes it, a slider or window draw puts it at its rectangle
OnDisplay(before, log) ==
  LET marks == { i \in DOMAIN log :
                   log[i].op \in {"slider", "window", "fillScreen"} }
  IN IF marks = {} THEN before
     ELSE LET last == CHOOSE i \in marks : \A j \in marks : j <= i
          IN IF log[last].op = "fillScreen" THEN NothingDrawn
             ELSE [valid |-> TRUE, x |-> log[last].x, y |-> log[last].y,
                   width |-> log[last].w, height |-> log[last].h]

Screen(name, result) == Observe(name, result, OnDisplay(probe, result.tft))

ScreenSelectNext == Screen("selectNext", selectNext(Fresh(menu), millis))

ScreenSelectPrev == Screen("selectPrev", selectPrev(Fresh(menu), millis))

ScreenSelect == Screen("select", select(Fresh(menu), millis))

ScreenBack == Screen("back", back(Fresh(menu), millis))

ScreenUpdate == Screen("update", update(Fresh(menu), millis))

NextScreen ==
  \/ ScreenSelectNext
  \/ ScreenSelectPrev
  \/ ScreenSelect
  \/ ScreenBack
  \/ ScreenUpdate
  \/ Tick

InitScreen ==
  /\ \E mode \in {SLIDER_DISPLAY_FOLLOW_SELECTION, SLIDER_DISPLAY_FIXED_TOP} :
       menu = setup(MainMenu, mode)
  /\ op = "setup"
  /\ probe = OnDisplay(NothingDrawn, menu.tft)

SpecScreen == InitScreen /\ [][NextScreen]_vars

\* ---------------------------------------------------------------------
\* update() called after waits of any length, for several tick intervals
\* ---------------------------------------------------------------------
\* number of calls and waits followed after the tween is armed
MaxIntervalCalls == 4

\* arguments of setSliderAnimationInterval, in milliseconds
TickIntervals == {0, 15, 50}

\* time between two calls of loop(), in milliseconds
WaitMillis == {5, 15, 100}

InitInterval ==
  /\ \E form \in {1, 2}, interval \in TickIntervals :
       menu \in RearmStates(
                  setSliderAnimationInterval(
                    setSliderAnimationForm(
                      setSliderAnimationDuration(
                        setup(MainMenu, SLIDER_DISPLAY_FOLLOW_SELECTION),
                        DefaultAnimDuration),
                      form),
                    interval))
  /\ probe = [calls |-> 0]
  /\ op = "startAnimation"

IntervalUpdate ==
  /\ probe.calls < MaxIntervalCalls
  /\ menu' = update(Fresh(menu), millis)
  /\ op' = "update"
  /\ probe' = [calls |-> probe.calls + 1]

IntervalWait ==
  /\ probe.calls < MaxIntervalCalls
  /\ \E d \in WaitMillis : menu' = Elapse(menu, d)
  /\ op' = "delay"
  /\ probe' = [calls |-> probe.calls + 1]

NextInterval ==
  \/ IntervalUpdate
  \/ IntervalWait

SpecInterval == InitInterval /\ [][NextInterval]_vars

\* ---------------------------------------------------------------------
\* One call of animateSingleValue on values of the caller's choosing
\* ---------------------------------------------------------------------
\* the target of the component, in pixels
StepTarget == 57

\* current - target in fixed point: far on either side, just outside and
\* just inside the tolerance of half a pixel, and on the target
StepOffsets ==
  {-Fx(21), -((SCALE + 1) \div 2), -((SCALE - 1) \div 2), 0,
   (SCALE - 1) \div 2, (SCALE + 1) \div 2, Fx(21)}

StepVelocities == {-Fx(15), 0, Fx(15)}

StepErrors == {-Fx(2), 0, Fx(2)}

\* deltaTime in milliseconds
StepDeltaTimes == {-15, 0, 15, ClampMillis}

\* the values behind the four pointers before the call, and deltaTime; out
\* holds what the call leaves behind them and the flag it returns
InitStep ==
  /\ \E form \in {1, 2} : menu = setSliderAnimationForm(MenuSystem, form)
  /\ op = "input"
  /\ \E offset \in StepOffsets, velocity \in StepVelocities,
        error \in StepErrors, deltaTime \in StepDeltaTimes :
       probe = [current |-> Fx(StepTarget) + offset, target |-> Fx(StepTarget),
                velocity |-> velocity, error |-> error, deltaTime |-> deltaTime,
                out |-> [done |-> FALSE, current |-> Fx(StepTarget) + offset,
                         velocity |-> velocity, error |-> error]]

StepValue ==
  /\ op = "input"
  /\ probe' = [probe EXCEPT
                 !.out = animateSingleValue(menu, probe.current, probe.target,
                                            probe.velocity, probe.error,
                                            probe.deltaTime)]
  /\ op' = "animateSingleValue"
  /\ UNCHANGED menu

NextStep == StepValue

SpecStep == InitStep /\ [][NextStep]_vars

(***************************************************************************)
(* Properties                                                              *)
(***************************************************************************)
SelectionRect(s) == FxRect(calculateSliderTargetRect(s, s.selectedIndex))

NavFields(s) ==
  <<s.currentMenu, s.currentMenuSize, s.selectedIndex, s.startIndex,
    s.menuLevel>>

Histories(s) == <<s.menuHistory, s.menuSizeHistory, s.selectedIndexHistory>>

\* C1: in every reachable state, in either display mode, the selection lies
\* inside the viewport: startIndex <= selectedIndex < startIndex +
\* actualMaxDisplayItems.
C1_ViewportContainment ==
  /\ menu.startIndex <= menu.selectedIndex
  /\ menu.selectedIndex < menu.startIndex + menu.actualMaxDisplayItems

\* C1 witness: back() has brought back a selection that lay above the
\* viewport it found, and moved the viewport up to it.
C1_Witness ==
  /\ op = "back"
  /\ menu.buzzer = <<"longBeep">>
  /\ menu._sliderDisplayMode = SLIDER_DISPLAY_FOLLOW_SELECTION
  /\ menu.selectedIndex = 1
  /\ menu.startIndex = 1

\* C2 (as stated): whenever n select() calls on items with children, none of
\* them made while input is banned, have been followed by n back() calls,
\* currentMenu, currentMenuSize, selectedIndex and menuLevel are what they
\* were before the first select().
C2_AsStated ==
  (probe.phase = "back" /\ probe.m = probe.n /\ ~probe.banned)
    => /\ menu.currentMenu = probe.currentMenu
       /\ menu.currentMenuSize = probe.currentMenuSize
       /\ menu.selectedIndex = probe.selectedIndex
       /\ menu.menuLevel = probe.menuLevel

\* C2 (amended): whenever n select() calls on items with children, each of
\* which descended (none banned, none refused at the deepest level), have been
\* followed by n back() calls, currentMenu, currentMenuSize, selectedIndex and
\* menuLevel are what they were before the first select().
C2_HistorySymmetry ==
  (probe.phase = "back" /\ probe.m = probe.n /\ ~probe.banned /\ ~probe.refused)
    => /\ menu.currentMenu = probe.currentMenu
       /\ menu.currentMenuSize = probe.currentMenuSize
       /\ menu.selectedIndex = probe.selectedIndex
       /\ menu.menuLevel = probe.menuLevel

\* C2 witness: three descents from a selection other than the first item,
\* undone by three back() calls.
C2_Witness ==
  /\ probe.phase = "back"
  /\ probe.n = MaxRun
  /\ probe.m = probe.n
  /\ ~probe.banned
  /\ ~probe.refused
  /\ probe.selectedIndex = 1
  /\ menu.selectedIndex = 1
  /\ menu.menuLevel = probe.menuLevel

\* C3: menuLevel never exceeds the capacity of the history arrays, and a
\* select() on an item with children that the level test refuses leaves
\* menuLevel, currentMenu, currentMenuSize, selectedIndex, startIndex and
\* every history entry as they were.
C3_CapacityRefusal ==
  /\ [](menu.menuLevel <= HistorySize)
  /\ [][(LoopSelect /\ SelectedHasChildren(menu)
           /\ menu.menuLevel >= MaxDescendLevel)
          => /\ NavFields(menu') = NavFields(menu)
             /\ Histories(menu') = Histories(menu)]_vars

\* C3 witness: a select() on an item with children was taken (its tone
\* sounded) at the deepest level and the position stayed.
C3_Witness ==
  /\ op = "select"
  /\ menu.buzzer = <<"beep">>
  /\ SelectedHasChildren(menu)
  /\ menu.menuLevel = MaxDescendLevel

\* C4 (as stated): a non-banned select() on an item with children, made at
\* any depth 0..9, raises menuLevel by one.
C4_AsStated ==
  [][(LoopSelect /\ ~menu.BanOperation /\ SelectedHasChildren(menu)
        /\ menu.menuLevel <= HistorySize - 1)
       => menu'.menuLevel = menu.menuLevel + 1]_vars

\* C4 (amended): a non-banned select() on an item with children is refused
\* only at menuLevel 9, with nine entries stored: from every depth 0..8 it
\* stores the position it leaves at index menuLevel, keeps the other entries
\* and raises menuLevel by one; menuLevel never exceeds 9.
C4_DescendBelowNine ==
  /\ [](menu.menuLevel <= 9)
  /\ [][(LoopSelect /\ ~menu.BanOperation /\ SelectedHasChildren(menu))
          => IF menu.menuLevel < 9
             THEN /\ menu'.menuLevel = menu.menuLevel + 1
                  /\ menu'.menuHistory =
                       [menu.menuHistory EXCEPT
                          ![menu.menuLevel] = menu.currentMenu]
                  /\ menu'.menuSizeHistory =
                       [menu.menuSizeHistory EXCEPT
                          ![menu.menuLevel] = menu.currentMenuSize]
                  /\ menu'.selectedIndexHistory =
                       [menu.selectedIndexHistory EXCEPT
                          ![menu.menuLevel] = menu.selectedIndex]
             ELSE menu'.menuLevel = menu.menuLevel]_vars

\* C4 witness: a select() has descended from depth 8 to depth 9.
C4_Witness ==
  /\ op = "select"
  /\ menu.menuLevel = 9
  /\ menu.selectedIndex = 0
  /\ menu.menuHistory[8] # NULL
  /\ menu.titleDecoratorAnim.x_cur = Fx(menu.screenWidth)

\* C5: selectNext() at the last index and selectPrev() at index 0 change no
\* member of the object, draw nothing and sound no tone.
C5_BoundaryNoOp ==
  [][(\/ (LoopSelectNext /\ menu.currentMenuSize > 0
            /\ menu.selectedIndex = menu.currentMenuSize - 1)
      \/ (LoopSelectPrev /\ menu.currentMenuSize > 0
            /\ menu.selectedIndex = 0))
       => menu' = Fresh(menu)]_vars

\* C5 witness: selectNext() was called, unbanned, at the last index of a menu
\* of several items, after the selection had been moved there.
C5_Witness ==
  /\ op = "selectNext"
  /\ menu.currentMenuSize > 1
  /\ menu.selectedIndex = menu.currentMenuSize - 1
  /\ ~menu.BanOperation
  /\ menu.buzzer = << >>

\* C6: while BanOperation is set, selectNext(), selectPrev() and select()
\* change no member of the object, run no item action, draw nothing and sound
\* no tone.
C6_BannedNoOp ==
  [][((LoopSelectNext \/ LoopSelectPrev \/ LoopSelect) /\ menu.BanOperation)
       => menu' = Fresh(menu)]_vars

\* C6 witness: select() was called while banned outside window mode, on an
\* item that has an action, away from both boundaries.
C6_Witness ==
  /\ op = "select"
  /\ menu.BanOperation
  /\ menu.type = 0
  /\ menu.selectedIndex = 2
  /\ menu.currentMenuSize = 4
  /\ menu.buzzer = << >>

\* C7 (as stated): a back() call made while BanOperation is set clears it.
C7_AsStated ==
  [][(LoopBack /\ menu.BanOperation) => ~menu'.BanOperation]_vars

\* C7 witness: back() has run at depth 0 and BanOperation is still set.
C7_Witness ==
  /\ op = "back"
  /\ menu.BanOperation
  /\ menu.type = 0
  /\ menu.menuLevel = 0

\* C8 (as stated): back() at depth 0 in window mode clears the mode and
\* lifts BanOperation.
C8_AsStated ==
  [][(LoopBack /\ menu.menuLevel = 0 /\ menu.type = 1)
       => (menu'.type = 0 /\ ~menu'.BanOperation)]_vars

\* C8 witness: back() has run at depth 0 and the window mode is still on.
C8_Witness ==
  /\ op = "back"
  /\ menu.menuLevel = 0
  /\ menu.type = 1
  /\ menu.BanOperation
  /\ menu.buzzer = << >>

\* C9: back() in window mode at depth >= 1 changes nothing but these: type
\* goes back to 0, BanOperation is cleared, the slider tween is armed toward
\* the current selection's rectangle, and one long tone sounds.
C9_BackLeavesWindow ==
  [][(LoopBack /\ menu.type = 1 /\ menu.menuLevel >= 1)
       => menu' = [Fresh(menu) EXCEPT
                     !.type = 0,
                     !.BanOperation = FALSE,
                     !.sliderAnim = SetTgt(@, SelectionRect(menu)),
                     !.animationActive = TRUE,
                     !.lastAnimTime = millis,
                     !.buzzer = <<"longBeep">>]]_vars

\* C9 witness: back() has left the window mode at depth >= 1, on the item
\* whose action had opened it.
C9_Witness ==
  /\ op = "back"
  /\ menu.menuLevel >= 1
  /\ menu.buzzer = <<"longBeep">>
  /\ menu.selectedIndex < menu.currentMenuSize
  /\ ItemAt(menu.currentMenu, menu.selectedIndex).callback = "BuzzCallback"
  /\ menu.type = 0
  /\ ~menu.BanOperation
  /\ menu.sliderAnim.w_tgt # Fx((menu.screenWidth * 9) \div 10)

\* C10: back() at depth >= 1 outside window mode lowers menuLevel by one,
\* restores currentMenu, currentMenuSize and selectedIndex from the history
\* entry at the new level, arms the slider tween toward the restored
\* selection's rectangle, arms the title decorator from x = -titleDecoratorW
\* toward titleDecoratorX, raises needFullRedraw and sounds one long tone.
C10_BackPops ==
  [][(LoopBack /\ menu.type = 0 /\ menu.menuLevel >= 1)
       => /\ menu'.menuLevel = menu.menuLevel - 1
          /\ menu'.currentMenu = menu.menuHistory[menu.menuLevel - 1]
          /\ menu'.currentMenuSize = menu.menuSizeHistory[menu.menuLevel - 1]
          /\ menu'.selectedIndex =
               menu.selectedIndexHistory[menu.menuLevel - 1]
          /\ Histories(menu') = Histories(menu)
          /\ TgtRect(menu'.sliderAnim) = SelectionRect(menu')
          /\ menu'.animationActive
          /\ menu'.lastAnimTime = millis
          /\ menu'.titleDecoratorAnim =
               [x_cur |-> Fx(-menu.titleDecoratorW),
                x_tgt |-> Fx(menu.titleDecoratorX),
                x_vel |-> 0, x_err |-> 0]
          /\ menu'.titleDecoratorAnimationActive
          /\ menu'.lastTitleDecoratorAnimTime = millis
          /\ menu'.needFullRedraw
          /\ menu'.buzzer = <<"longBeep">>]_vars

\* C10 witness: back() has popped to a selection other than the first item,
\* and the title decorator stands at the left edge.
C10_Witness ==
  /\ op = "back"
  /\ menu.buzzer = <<"longBeep">>
  /\ menu.selectedIndex = 1
  /\ menu.titleDecoratorAnim.x_cur = Fx(-menu.titleDecoratorW)
  /\ menu.titleDecoratorAnimationActive
  /\ menu.needFullRedraw

(***************************************************************************)
(* C11: an accepted select() on an item with a submenu (not banned, level  *)
(* below nine) writes the position it leaves into the history slot of the  *)
(* old level and no other slot, raises menuLevel by one, sets              *)
(* selectedIndex and startIndex to 0 in either display mode, arms the      *)
(* slider tween toward the first item of a child that has items, and arms  *)
(* the title decorator from x = screenWidth toward its resting x.          *)
(***************************************************************************)
SelectedItem(s) == ItemAt(s.currentMenu, s.selectedIndex)

SelectAccepted(s) == ~OperationBanned(s) /\ SelectedHasChildren(s) /\ canDescend(s)

C11_SelectDescends ==
  [][(LoopSelect /\ SelectAccepted(menu)) =>
       /\ menu'.menuLevel = menu.menuLevel + 1
       /\ menu'.menuHistory =
            [menu.menuHistory EXCEPT ![menu.menuLevel] = menu.currentMenu]
       /\ menu'.menuSizeHistory =
            [menu.menuSizeHistory EXCEPT ![menu.menuLevel] = menu.currentMenuSize]
       /\ menu'.selectedIndexHistory =
            [menu.selectedIndexHistory EXCEPT ![menu.menuLevel] = menu.selectedIndex]
       /\ menu'.currentMenu = SelectedItem(menu).subMenu
       /\ menu'.currentMenuSize = SelectedItem(menu).subMenuSize
       /\ menu'.selectedIndex = 0
       /\ menu'.startIndex = 0
       /\ menu'.animationActive
       /\ (menu'.currentMenuSize > 0 =>
             /\ TgtRect(menu'.sliderAnim) = SelectionRect(menu')
             /\ CurRect(menu'.sliderAnim) = CurRect(menu.sliderAnim))
       /\ menu'.titleDecoratorAnim.x_cur = Fx(menu.screenWidth)
       /\ menu'.titleDecoratorAnim.x_tgt = Fx(menu.titleDecoratorX)
       /\ menu'.titleDecoratorAnim.x_vel = 0
       /\ menu'.titleDecoratorAnimationActive]_vars

\* a descent from a scrolled position into a child that has items, while the
\* slider is away from the child's first row
C11_Witness ==
  /\ op = "select"
  /\ menu.menuLevel > 0
  /\ menu.selectedIndex = 0
  /\ menu.currentMenuSize > 0
  /\ menu.selectedIndexHistory[menu.menuLevel - 1] > 0
  /\ menu.titleDecoratorAnimationActive
  /\ menu.titleDecoratorAnim.x_cur = Fx(menu.screenWidth)
  /\ menu.animationActive
  /\ TgtRect(menu.sliderAnim) = SelectionRect(menu)
  /\ CurRect(menu.sliderAnim) # TgtRect(menu.sliderAnim)

(***************************************************************************)
(* C12: select() on an item that has neither a callback nor a submenu      *)
(* sounds one short tone and leaves every member of the menu system as it  *)
(* was: selection, viewport, level, current menu, history, both            *)
(* animations, render mode and the operation ban.                          *)
(***************************************************************************)
SelectedIsPlain(s) ==
  /\ s.currentMenu # NULL
  /\ s.selectedIndex < s.currentMenuSize
  /\ SelectedItem(s).callback = "NULL"
  /\ ~hasSubMenu(SelectedItem(s))

C12_PlainSelectBeeps ==
  [][(LoopSelect /\ SelectedIsPlain(menu)) =>
       menu' = [Fresh(menu) EXCEPT !.buzzer = <<"beep">>]]_vars

\* a plain item selected below the root while a slider tween is under way
C12_Witness ==
  /\ op = "select"
  /\ SelectedIsPlain(menu)
  /\ menu.buzzer = <<"beep">>
  /\ menu.menuLevel > 0
  /\ menu.animationActive

(***************************************************************************)
(* C13: when the selected item's callback sets TypeNum to 1, select()      *)
(* returns with the slider target at the window rectangle (x = 5% and      *)
(* width = 90% of the screen width, y = 25% and height = 50% of the screen *)
(* height), the animation active, the render mode (type) 1, BanOperation   *)
(* set and TypeNum back at 0.                                              *)
(***************************************************************************)
SelectedRequestsWindow(s) ==
  /\ s.currentMenu # NULL
  /\ s.selectedIndex < s.currentMenuSize
  /\ ~OperationBanned(s)
  /\ Invoke(s, SelectedItem(s).callback, millis).TypeNum = 1

WindowRect(s) ==
  RectF((s.screenWidth * 5) \div 100, (s.screenHeight * 25) \div 100,
        (s.screenWidth * 90) \div 100, (s.screenHeight * 50) \div 100)

C13_WindowSequence ==
  [][(LoopSelect /\ SelectedRequestsWindow(menu)) =>
       /\ TgtRect(menu'.sliderAnim) = FxRect(WindowRect(menu))
       /\ CurRect(menu'.sliderAnim) = CurRect(menu.sliderAnim)
       /\ menu'.animationActive
       /\ menu'.lastAnimTime = millis
       /\ menu'.type = 1
       /\ menu'.BanOperation = TRUE
       /\ menu'.TypeNum = 0
       /\ NavFields(menu') = NavFields(menu)]_vars

\* the window has been requested below the root from a scrolled selection
C13_Witness ==
  /\ op = "select"
  /\ menu.type = 1
  /\ menu.BanOperation = TRUE
  /\ menu.TypeNum = 0
  /\ menu.animationActive
  /\ menu.menuLevel > 0
  /\ menu.startIndex > 0
  /\ TgtRect(menu.sliderAnim) = FxRect(WindowRect(menu))
  /\ CurRect(menu.sliderAnim) # TgtRect(menu.sliderAnim)

(***************************************************************************)
(* C14: in follow-selection mode a selectNext()/selectPrev() that moves    *)
(* the selection and leaves startIndex alone arms a tween (animationActive *)
(* true, target = the new selection's rectangle, current rectangle         *)
(* untouched); one that changes startIndex is a snap: the current          *)
(* rectangle equals the new selection's rectangle and the stored target    *)
(* rectangle, and animationActive is false.                                *)
(***************************************************************************)
SelectionMoves ==
  /\ LoopSelectNext \/ LoopSelectPrev
  /\ menu'.selectedIndex # menu.selectedIndex

C14_AsStated ==
  [][(SelectionMoves /\ menu._sliderDisplayMode = SLIDER_DISPLAY_FOLLOW_SELECTION) =>
       IF menu'.startIndex = menu.startIndex
       THEN /\ menu'.animationActive
            /\ TgtRect(menu'.sliderAnim) = SelectionRect(menu')
            /\ CurRect(menu'.sliderAnim) = CurRect(menu.sliderAnim)
       ELSE /\ ~menu'.animationActive
            /\ CurRect(menu'.sliderAnim) = SelectionRect(menu')
            /\ CurRect(menu'.sliderAnim) = TgtRect(menu'.sliderAnim)]_vars

(***************************************************************************)
(* C15: in follow-selection mode, in a menu of N items with                *)
(* M = actualMaxDisplayItems < N, after k consecutive selectNext() calls   *)
(* (k <= N - 1) made from selectedIndex 0 and startIndex 0 the selection   *)
(* is k and startIndex is max(0, k - M + 1); and every selectNext() or     *)
(* selectPrev() changes startIndex by at most one, and only when the new   *)
(* selection lies outside the viewport it had before the call.             *)
(***************************************************************************)
FollowScrollable(s) ==
  /\ s._sliderDisplayMode = SLIDER_DISPLAY_FOLLOW_SELECTION
  /\ s.actualMaxDisplayItems < s.currentMenuSize

OutsideViewport(s, index) ==
  index < s.startIndex \/ index >= s.startIndex + s.actualMaxDisplayItems

C15_FollowScroll ==
  /\ []((probe.phase = "next" /\ FollowScrollable(menu)) =>
          /\ menu.selectedIndex = probe.n
          /\ menu.startIndex = Max(0, probe.n - menu.actualMaxDisplayItems + 1))
  /\ [][((ScrollSelectNext \/ ScrollSelectPrev) /\ FollowScrollable(menu)) =>
          /\ Abs(menu'.startIndex - menu.startIndex) <= 1
          /\ (menu'.startIndex # menu.startIndex) =
               (menu'.selectedIndex # menu.selectedIndex
                  /\ OutsideViewport(menu, menu'.selectedIndex))]_vars

\* the run has reached the last of four items below the root, two rows past
\* the first viewport
C15_Witness ==
  /\ probe.phase = "next"
  /\ probe.n = 3
  /\ FollowScrollable(menu)
  /\ menu.menuLevel > 0
  /\ menu.selectedIndex = menu.currentMenuSize - 1
  /\ menu.startIndex = 2

(***************************************************************************)
(* C16: in fixed-top mode every selectNext()/selectPrev() that moves the   *)
(* selection returns with startIndex = selectedIndex, animationActive      *)
(* false and the slider's current rectangle equal to the new selection's   *)
(* rectangle: the move is a snap and arms no tween.                        *)
(***************************************************************************)
C16_FixedTopSnap ==
  [][(SelectionMoves /\ menu._sliderDisplayMode = SLIDER_DISPLAY_FIXED_TOP) =>
       /\ menu'.startIndex = menu'.selectedIndex
       /\ ~menu'.animationActive
       /\ CurRect(menu'.sliderAnim) = SelectionRect(menu')
       /\ TgtRect(menu'.sliderAnim) = TgtRect(menu.sliderAnim)
       /\ menu'.lastAnimTime = menu.lastAnimTime]_vars

\* a move up in fixed-top mode onto an item of another width than the one
\* left, made while a tween was under way
C16_Witness ==
  /\ op = "selectPrev"
  /\ menu._sliderDisplayMode = SLIDER_DISPLAY_FIXED_TOP
  /\ menu.buzzer = <<"beep">>
  /\ menu.selectedIndex = 1
  /\ menu.startIndex = 1
  /\ ~menu.animationActive
  /\ CurRect(menu.sliderAnim) = SelectionRect(menu)
  /\ menu.sliderAnim.w_cur # menu.sliderAnim.w_tgt

(***************************************************************************)
(* C17: in every reachable state whose display mode is fixed-top,          *)
(* startIndex = selectedIndex, also after setSliderDisplayMode(            *)
(* SLIDER_DISPLAY_FIXED_TOP) called after navigating in follow-selection   *)
(* mode, after select() into a submenu and after back().                   *)
(***************************************************************************)
C17_AsStated ==
  menu._sliderDisplayMode = SLIDER_DISPLAY_FIXED_TOP =>
    menu.startIndex = menu.selectedIndex

(***************************************************************************)
(* C18: in every reachable state with currentMenuSize >                    *)
(* actualMaxDisplayItems, startIndex + actualMaxDisplayItems <=            *)
(* currentMenuSize, in both display modes and after every selectNext,      *)
(* selectPrev, select and back.                                            *)
(***************************************************************************)
C18_AsStated ==
  menu.currentMenuSize > menu.actualMaxDisplayItems =>
    menu.startIndex + menu.actualMaxDisplayItems <= menu.currentMenuSize

\* C18 as amended: the bound holds in follow-selection mode; in fixed-top
\* mode startIndex is the selection, which may be any index of the list.
C18_FollowViewportBound ==
  FollowScrollable(menu) =>
    menu.startIndex + menu.actualMaxDisplayItems <= menu.currentMenuSize

\* back() has returned from a longer submenu to the last item of a list of
\* three, with the viewport at the end of that list
C18_Witness ==
  /\ op = "back"
  /\ FollowScrollable(menu)
  /\ menu.menuLevel = 0
  /\ menu.currentMenuSize = 3
  /\ menu.selectedIndex = 2
  /\ menu.startIndex = 1

(***************************************************************************)
(* C19: whenever animationActive is false the slider's current rectangle   *)
(* equals its stored target rectangle in all four components and its four  *)
(* velocities are zero; and whenever titleDecoratorAnimationActive is      *)
(* false the title decorator's current x equals its target and its         *)
(* velocity is zero.                                                       *)
(***************************************************************************)
SliderAtRest(a) ==
  /\ CurRect(a) = TgtRect(a)
  /\ a.x_vel = 0 /\ a.y_vel = 0 /\ a.w_vel = 0 /\ a.h_vel = 0

TitleDecoratorAtRest(a) == a.x_cur = a.x_tgt /\ a.x_vel = 0

C19_AsStated ==
  /\ ~menu.animationActive => SliderAtRest(menu.sliderAnim)
  /\ ~menu.titleDecoratorAnimationActive =>
       TitleDecoratorAtRest(menu.titleDecoratorAnim)

(***************************************************************************)
(* C20: for each animation form (1 and 2), with the target fixed and       *)
(* update() called again and again at a constant interval of at most the   *)
(* 0.1 s clamp, every component reaches its target within a bounded number *)
(* of calls, after which animationActive is false.                         *)
(***************************************************************************)
C20_AsStated ==
  probe.ticks = MaxAnimTicks =>
    /\ ~menu.animationActive
    /\ CurRect(menu.sliderAnim) = TgtRect(menu.sliderAnim)

(***************************************************************************)
(* C21: in form 2 a step of one component called with deltaTime <= 0       *)
(* changes neither current, velocity nor error and does not report the     *)
(* component as converged, whatever the distance between current and       *)
(* target, a distance below the tolerance of half a pixel included.        *)
(***************************************************************************)
StepStalled ==
  /\ op = "animateSingleValue"
  /\ menu._animationForm = 2
  /\ probe.deltaTime <= 0

StepUnchanged ==
  /\ ~probe.out.done
  /\ probe.out.current = probe.current
  /\ probe.out.velocity = probe.velocity
  /\ probe.out.error = probe.error

StepSnapped ==
  /\ probe.out.done
  /\ probe.out.current = probe.target
  /\ probe.out.velocity = 0
  /\ probe.out.error = 0

WithinTolerance == Abs(probe.current - probe.target) * 2 < SCALE

C21_AsStated == StepStalled => StepUnchanged

\* C21 as amended: the step changes nothing and reports no convergence when
\* the distance is at least half a pixel; below that the step snaps the
\* component to its target and reports it converged, whatever deltaTime is.
C21_StalledStep ==
  StepStalled => IF WithinTolerance THEN StepSnapped ELSE StepUnchanged

\* time has gone backwards for a component that is far from its target and
\* moving
C21_Witness ==
  /\ StepStalled
  /\ probe.deltaTime < 0
  /\ ~WithinTolerance
  /\ probe.velocity # 0
  /\ probe.error # 0
  /\ StepUnchanged

(***************************************************************************)
(* C22: a call that arms a slider target while a tween is under way puts   *)
(* the new rectangle into all four target components and leaves the        *)
(* current rectangle as it is; the ticks that follow never write the       *)
(* target, and the tween they run ends on the target armed last.           *)
(***************************************************************************)
\* the calls of this run that reach startAnimation
ArmsTween(s, name) ==
  CASE name = "selectNext" ->
         /\ ~selectNextAtEnd(s) /\ ~OperationBanned(s)
         /\ s._sliderDisplayMode = SLIDER_DISPLAY_FOLLOW_SELECTION
         /\ ~OutsideViewport(s, s.selectedIndex + 1)
    [] name = "selectPrev" ->
         /\ ~selectPrevAtStart(s) /\ ~OperationBanned(s)
         /\ s._sliderDisplayMode = SLIDER_DISPLAY_FOLLOW_SELECTION
         /\ ~OutsideViewport(s, s.selectedIndex - 1)
    [] name = "select" ->
         \/ SelectedRequestsWindow(s)
         \/ SelectAccepted(s) /\ SelectedItem(s).subMenuSize > 0
    [] name = "back" -> s.menuLevel > 0
    [] OTHER -> FALSE

\* the rectangle such a call hands to startAnimation
ArmedRect(s) ==
  IF s.type = 1 THEN FxRect(WindowRect(s)) ELSE SelectionRect(s)

C22_Rearm ==
  /\ [][((RearmSelectNext \/ RearmSelectPrev \/ RearmSelect \/ RearmBack)
           /\ ArmsTween(menu, op')) =>
          /\ TgtRect(menu'.sliderAnim) = ArmedRect(menu')
          /\ CurRect(menu'.sliderAnim) = CurRect(menu.sliderAnim)
          /\ menu'.animationActive]_vars
  /\ [][AnimTick =>
          /\ TgtRect(menu'.sliderAnim) = TgtRect(menu.sliderAnim)
          /\ (menu.animationActive /\ ~menu'.animationActive =>
                CurRect(menu'.sliderAnim) = TgtRect(menu.sliderAnim))]_vars

\* a tween re-armed in mid-flight, toward a rectangle that differs from the
\* earlier target in every component, has ended on the later target
C22_Witness ==
  /\ probe.rearmed
  /\ op = "update"
  /\ probe.from # probe.old
  /\ probe.old.x # menu.sliderAnim.x_tgt
  /\ probe.old.y # menu.sliderAnim.y_tgt
  /\ probe.old.width # menu.sliderAnim.w_tgt
  /\ probe.old.height # menu.sliderAnim.h_tgt
  /\ ~menu.animationActive
  /\ CurRect(menu.sliderAnim) = TgtRect(menu.sliderAnim)

(***************************************************************************)
(* C23: an update() call repaints the whole menu only when, at its redraw  *)
(* decision, neither the slider animation nor the title-decorator          *)
(* animation is active; with either of them active the raised              *)
(* needFullRedraw is left raised and nothing is repainted.                 *)
(***************************************************************************)
\* the call's drawing contains an operation of this kind
Drew(s, o) == \E i \in DOMAIN s.tft : s.tft[i].op = o

FullRepaint(s) == Drew(s, "fillScreen")

Animating(s) == s.animationActive \/ s.titleDecoratorAnimationActive

C23_RepaintWaits ==
  [][LoopUpdate =>
       /\ FullRepaint(menu') => ~Animating(menu')
       /\ (menu.needFullRedraw /\ Animating(menu')) =>
            menu'.needFullRedraw /\ ~FullRepaint(menu')]_vars

\* an update() that ran an animation step and left the repaint pending
C23_Witness ==
  /\ op = "update"
  /\ menu.needFullRedraw
  /\ menu.animationActive
  /\ ~menu.titleDecoratorAnimationActive
  /\ Drew(menu, "titleDecorator")
  /\ ~FullRepaint(menu)

(***************************************************************************)
(* C24: one update() call draws an animated frame (slider, window or       *)
(* title decorator) or repaints the whole menu, never both.                *)
(***************************************************************************)
FrameOps == {"slider", "window", "titleDecorator"}

\* a frame drawn by an animation step, i.e. ahead of any screen clear
AnimatedFrame(s) ==
  \E i \in DOMAIN s.tft :
    /\ s.tft[i].op \in FrameOps
    /\ \A j \in 1..i : s.tft[j].op # "fillScreen"

C24_AsStated ==
  [][LoopUpdate => ~(AnimatedFrame(menu') /\ FullRepaint(menu'))]_vars

\* C24 (amended): the animation steps come before the redraw decision, so
\* the call in which the last active animation finishes repaints the menu
\* itself; only such a call draws both an animated frame and the repaint.
C24_FrameThenRepaint ==
  [][LoopUpdate =>
       /\ (Animating(menu) /\ ~Animating(menu')) =>
            FullRepaint(menu') /\ ~menu'.needFullRedraw
       /\ (AnimatedFrame(menu') /\ FullRepaint(menu')) =>
            Animating(menu) /\ ~Animating(menu')]_vars

\* the call in which the slider tween finished: its last frame, then the repaint
C24_Witness ==
  /\ op = "update"
  /\ Drew(menu, "slider")
  /\ AnimatedFrame(menu)
  /\ FullRepaint(menu)
  /\ ~Animating(menu)

(***************************************************************************)
(* C25: after a navigation call, with update() called again and again and  *)
(* no further input, the menu comes to rest: both animations inactive and  *)
(* needFullRedraw honoured and cleared.  Stated for a run of MaxAnimTicks   *)
(* update() calls at a constant interval.                                  *)
(***************************************************************************)
Idle(s) == ~Animating(s) /\ ~s.needFullRedraw

C25_AsStated == probe.ticks = MaxAnimTicks => Idle(menu)

(***************************************************************************)
(* C26: after every recomputation of the layout (construction,             *)
(* setRootMenu, setMenuFontSize, setTitleFontSize) actualMaxDisplayItems   *)
(* is at least 1, also when the usable height divided by item height plus  *)
(* spacing rounds to zero and when the current menu has size 0.            *)
(***************************************************************************)
C26_AsStated == menu.actualMaxDisplayItems >= 1

(***************************************************************************)
(* C27: select() on an item whose submenu has size 0 descends one level    *)
(* and puts the slider's current and target rectangles on the placeholder  *)
(* rectangle; in the empty menu selectNext(), selectPrev() and select() do *)
(* nothing and sound no tone, and back() returns to the parent with the    *)
(* parent's selection restored.                                            *)
(***************************************************************************)
InEmptyMenu(s) == s.currentMenu # NULL /\ s.currentMenuSize = 0

C27_EmptySubmenu ==
  /\ [][(LoopSelect /\ SelectAccepted(menu)
           /\ SelectedItem(menu).subMenuSize = 0) =>
          /\ menu'.menuLevel = menu.menuLevel + 1
          /\ menu'.currentMenu = SelectedItem(menu).subMenu
          /\ InEmptyMenu(menu')
          /\ CurRect(menu'.sliderAnim) = PlaceholderRect(menu')
          /\ TgtRect(menu'.sliderAnim) = PlaceholderRect(menu')]_vars
  /\ [][((LoopSelectNext \/ LoopSelectPrev \/ LoopSelect)
           /\ InEmptyMenu(menu)) => menu' = Fresh(menu)]_vars
  /\ [][(LoopBack /\ InEmptyMenu(menu)) =>
          /\ menu'.menuLevel = menu.menuLevel - 1
          /\ menu'.currentMenuSize > 0
          /\ menu'.selectedIndex < menu'.currentMenuSize
          /\ SelectedItem(menu').subMenu = menu.currentMenu
          /\ menu'.buzzer = <<"longBeep">>]_vars

\* back in the parent, on the item that opened the empty menu
C27_Witness ==
  /\ op = "back"
  /\ menu.buzzer = <<"longBeep">>
  /\ menu.selectedIndex > 0
  /\ SelectedHasChildren(menu)
  /\ SelectedItem(menu).subMenuSize = 0
  /\ TgtRect(menu.sliderAnim) = SelectionRect(menu)

(***************************************************************************)
(* C28: the values set by setCustomSliderTarget override the slider target *)
(* only in SLIDER_DISPLAY_FIXED_TOP mode; in follow-selection mode the     *)
(* target a navigation call arms is the default computed rectangle,        *)
(* whatever the custom values are.                                         *)
(***************************************************************************)
\* the selection's rectangle computed without the custom values
DefaultRect(s) ==
  FxRect(calculateSliderTargetRect(
           [s EXCEPT !._useCustomSliderPosition = FALSE,
                     !._useCustomSliderSize = FALSE],
           s.selectedIndex))

C28_AsStated ==
  [][((ScrollSelectNext \/ ScrollSelectPrev \/ ScrollSelect \/ ScrollBack)
        /\ ArmsTween(menu, op')
        /\ menu'.type = 0
        /\ menu'._sliderDisplayMode = SLIDER_DISPLAY_FOLLOW_SELECTION) =>
       TgtRect(menu'.sliderAnim) = DefaultRect(menu')]_vars

(***************************************************************************)
(* C29: a tick switches the slider animation off (animationActive false,   *)
(* full repaint requested) only if x, y, width and height are all at their *)
(* targets on that tick; a component that has reached its target stays     *)
(* there, done, on every later tick, and a component within the tolerance  *)
(* is put exactly on its target with velocity and error zero.              *)
(***************************************************************************)
\* current, target, velocity and error of one component of sliderAnim
Component(a, k) ==
  CASE k = "x" -> [current |-> a.x_cur, target |-> a.x_tgt,
                   velocity |-> a.x_vel, error |-> a.x_err]
    [] k = "y" -> [current |-> a.y_cur, target |-> a.y_tgt,
                   velocity |-> a.y_vel, error |-> a.y_err]
    [] k = "w" -> [current |-> a.w_cur, target |-> a.w_tgt,
                   velocity |-> a.w_vel, error |-> a.w_err]
    [] k = "h" -> [current |-> a.h_cur, target |-> a.h_tgt,
                   velocity |-> a.h_vel, error |-> a.h_err]

Components == {"x", "y", "w", "h"}

AtTarget(p) == p.current = p.target /\ p.velocity = 0 /\ p.error = 0

C29_Convergence ==
  [][(AnimTick /\ menu.animationActive) =>
       /\ ~menu'.animationActive =>
            /\ \A k \in Components : AtTarget(Component(menu'.sliderAnim, k))
            /\ menu'.needFullRedraw \/ FullRepaint(menu')
       /\ \A k \in Components :
            LET p == Component(menu.sliderAnim, k)
            IN Abs(p.current - p.target) * 2 < SCALE =>
                 AtTarget(Component(menu'.sliderAnim, k))
       /\ (\A k \in Components :
             LET p == Component(menu.sliderAnim, k)
             IN Abs(p.current - p.target) * 2 < SCALE) =>
            ~menu'.animationActive]_vars

\* the window tween after a tick: x has arrived, the width has not, and the
\* animation is still active
C29_Witness ==
  /\ op = "update"
  /\ menu.type = 1
  /\ menu.animationActive
  /\ probe.ticks >= 2
  /\ AtTarget(Component(menu.sliderAnim, "x"))
  /\ menu.sliderAnim.w_cur # menu.sliderAnim.w_tgt

(***************************************************************************)
(* C30: the four components of the rectangle animate independently: two    *)
(* runs that agree on the width's current, target, velocity and error and  *)
(* differ in the height's current or target have the same width after      *)
(* every tick.                                                             *)
(***************************************************************************)
C30_AsStated == menu.sliderAnim.w_cur = probe.other.sliderAnim.w_cur

(***************************************************************************)
(* C31: update() advances an active animation only if at least             *)
(* animInterval milliseconds have passed since it was armed or last        *)
(* advanced, and otherwise leaves its state as it is; when it advances,    *)
(* the time handed to the integrator is min(elapsed, 100 ms) and is        *)
(* strictly positive.                                                      *)
(***************************************************************************)
\* milliseconds since the slider / the title decorator was armed or advanced
SliderElapsed(s) == millis - s.lastAnimTime

DecoratorElapsed(s) == millis - s.lastTitleDecoratorAnimTime

\* what the claim says of the time handed over after `elapsed` milliseconds
HandsOver(s, elapsed) ==
  /\ DeltaTime(s, elapsed) =
       (IF elapsed < ClampMillis THEN elapsed ELSE ClampMillis)
  /\ DeltaTime(s, elapsed) > 0

C31_AsStated ==
  [][IntervalUpdate =>
       /\ menu.animationActive =>
            IF SliderElapsed(menu) < menu.animInterval
            THEN /\ menu'.sliderAnim = menu.sliderAnim
                 /\ menu'.lastAnimTime = menu.lastAnimTime
                 /\ menu'.animationActive
            ELSE HandsOver(menu, SliderElapsed(menu))
       /\ menu.titleDecoratorAnimationActive =>
            IF DecoratorElapsed(menu) < menu.animInterval
            THEN /\ menu'.titleDecoratorAnim = menu.titleDecoratorAnim
                 /\ menu'.lastTitleDecoratorAnimTime =
                      menu.lastTitleDecoratorAnimTime
                 /\ menu'.titleDecoratorAnimationActive
            ELSE HandsOver(menu, DecoratorElapsed(menu))]_vars

(***************************************************************************)
(* C32: the redraw-diff snapshot (lastSelectedIndex, lastStartIndex,       *)
(* lastTitle, lastSelectedRect) is written by the drawing routines only;   *)
(* selectNext(), selectPrev(), select() and back() leave all four fields   *)
(* as they are.                                                            *)
(***************************************************************************)
Snapshot(s) ==
  <<s.lastSelectedIndex, s.lastStartIndex, s.lastTitle, s.lastSelectedRect>>

SliderFrame(s) ==
  \E i \in DOMAIN s.tft :
    /\ s.tft[i].op \in {"slider", "window"}
    /\ \A j \in 1..i : s.tft[j].op # "fillScreen"

Inflated(s, r) ==
  Draw("erase", r.x - s.menuItemBorderOffset, r.y - s.menuItemBorderOffset,
       r.width + 2 * s.menuItemBorderOffset,
       r.height + 2 * s.menuItemBorderOffset)

\* C33 (as stated): on every animated tick that draws the slider or the
\* window, the rectangle erased first is the border-inflated rectangle at
\* which it was most recently drawn on the display.
C33_AsStated ==
  [][(ScreenUpdate /\ SliderFrame(menu') /\ probe.valid) =>
       menu'.tft[1] = Inflated(menu, probe)]_vars

(***************************************************************************)
(* C34: the title below the root                                           *)
(***************************************************************************)
ParentItem(s) ==
  ItemAt(s.menuHistory[s.menuLevel - 1],
         s.selectedIndexHistory[s.menuLevel - 1])

\* C34: in every reachable state with menuLevel >= 1 the history entry below
\* the current level is inside the arrays and names an item of the stored
\* parent array, that item is the one whose submenu is the current menu, and
\* the title computed by drawTitle is its label and never "ERROR".
C34_TitleIsParent ==
  menu.menuLevel >= 1 =>
    /\ menu.menuLevel - 1 < HistorySize
    /\ menu.selectedIndexHistory[menu.menuLevel - 1]
         < menu.menuSizeHistory[menu.menuLevel - 1]
    /\ ParentItem(menu).subMenu = menu.currentMenu
    /\ ParentItem(menu).subMenuSize = menu.currentMenuSize
    /\ currentTitleStr(menu) = ParentItem(menu).label
    /\ currentTitleStr(menu) # "ERROR"

\* C34 witness: at the deepest level the history allows, update() has drawn
\* the title, which is the label of the ninth item entered.
C34_Witness ==
  /\ op = "update"
  /\ menu.menuLevel = MaxDescendLevel
  /\ menu.lastTitle = currentTitleStr(menu)
  /\ menu.lastTitle = "Anim"

(***************************************************************************)
(* C35: the scrollbar thumb, for any track height and item count           *)
(***************************************************************************)
MaxTrack == 40

MaxItems == 6

ThumbRows == {1, 2, 3}

\* calculateLayoutParameters(): "Scrollbar boundary protection"
thumbFloor(scrollbarH, computed) ==
  IF scrollbarH < computed THEN Max(scrollbarH \div 2, 10) ELSE computed

\* calculateLayoutParameters(): scrollbarThumbMinHeight from the track height,
\* the visible rows and the item count; (int) truncates the products
thumbMinHeight(scrollbarH, actualMaxDisplayItems, currentMenuSize) ==
  thumbFloor(scrollbarH,
             U8(Max((scrollbarH * 8) \div 100,
                    Min((scrollbarH * actualMaxDisplayItems)
                          \div currentMenuSize,
                        scrollbarH \div 2))))

\* drawScrollbar(): the height of the thumb it fills
thumbHeight(s) ==
  Max(s.scrollbarThumbMinHeight,
      (s.scrollbarH * s.actualMaxDisplayItems) \div s.currentMenuSize)

\* drawScrollbar(): nothing is drawn unless the menu is longer than the
\* viewport; otherwise the track and then the thumb are filled
drawScrollbarThumb(s) ==
  IF s.currentMenuSize <= s.actualMaxDisplayItems
       \/ s.actualMaxDisplayItems = 0
  THEN s
  ELSE [s EXCEPT !.tft = << [op |-> "track", height |-> s.scrollbarH],
                            [op |-> "thumb", height |-> thumbHeight(s)] >>]

InitThumb ==
  /\ \E scrollbarH \in 0 .. MaxTrack, rows \in ThumbRows,
        size \in 1 .. MaxItems :
       menu = [scrollbarH |-> scrollbarH,
               actualMaxDisplayItems |-> rows,
               currentMenuSize |-> size,
               scrollbarThumbMinHeight |->
                 thumbMinHeight(scrollbarH, rows, size),
               tft |-> << >>]
  /\ probe = [calls |-> 0]
  /\ op = "calculateLayoutParameters"

ThumbDraw ==
  /\ op = "calculateLayoutParameters"
  /\ menu' = drawScrollbarThumb(menu)
  /\ probe' = [calls |-> 1]
  /\ op' = "drawScrollbar"

NextThumb == ThumbDraw

SpecThumb == InitThumb /\ [][NextThumb]_vars

ThumbDrawn == op = "drawScrollbar" /\ menu.tft # << >>

\* C35 (as stated): whenever the scrollbar is drawn, the thumb height lies
\* between 8% and 50% of the track height, or equals max(trackHeight/2, 10)
\* when the track is smaller than the minimum thumb; it is not zero, not
\* negative and not larger than the track.
C35_AsStated ==
  ThumbDrawn =>
    /\ \/ /\ menu.tft[2].height >= (menu.scrollbarH * 8) \div 100
          /\ menu.tft[2].height <= menu.scrollbarH \div 2
       \/ menu.tft[2].height = Max(menu.scrollbarH \div 2, 10)
    /\ menu.tft[2].height > 0
    /\ menu.tft[2].height <= menu.scrollbarH

(***************************************************************************)
(* KeyLib: the button reader of the sketch                                 *)
(*                                                                         *)
(* In SpecKey and SpecPins the variable `menu` holds the KeyLib object of  *)
(* the sketch (keyLib), `probe` the button, the position in loop() and the *)
(* events seen; stored times are relative to the clock, as above.          *)
(***************************************************************************)
MAX_KEYS == 10

BTN_SELECT == 16

DebounceTime == 50

LongPressTime == 700

KeyState0 ==
  [lastState |-> FALSE, currentState |-> FALSE, lastDebounceTime |-> 0,
   lastPressTime |-> 0, lastReleaseTime |-> 0, pressHandled |-> FALSE,
   singlePressDetected |-> FALSE, pressCount |-> 0]

\* KeyLib::KeyLib(debounceTime)
KeyLib(debounceTime) ==
  [debounceDelay |-> debounceTime,
   keyCount |-> 0,
   keyStates |-> [i \in 0 .. MAX_KEYS - 1 |-> KeyState0]]

\* KeyLib::getKeyIndex: the loop compares its index with the pin
getKeyIndex(k, pin) ==
  IF \E i \in 0 .. k.keyCount - 1 : i = pin
  THEN [lib |-> k, index |-> pin]
  ELSE IF k.keyCount < MAX_KEYS
  THEN [lib |-> [k EXCEPT !.keyCount = @ + 1], index |-> k.keyCount]
  ELSE [lib |-> k, index |-> 0]

\* updateKeyState: a changed reading restarts the debounce timer
keyDebounce(state, reading) ==
  IF reading # state.lastState
  THEN [state EXCEPT !.lastDebounceTime = millis]
  ELSE state

keyPressed(state) ==
  [state EXCEPT !.currentState = TRUE,
                !.lastPressTime = millis,
                !.pressCount = @ + 1,
                !.pressHandled = FALSE]

keyReleasedAlways(state) ==
  [state EXCEPT !.currentState = FALSE,
                !.lastReleaseTime = millis,
                !.singlePressDetected = TRUE]

\* updateKeyState: the debounced state went from pressed to released
keyReleased(state) ==
  [state EXCEPT !.currentState = FALSE,
                !.lastReleaseTime = millis,
                !.singlePressDetected = IF ~state.pressHandled THEN TRUE ELSE @]

\* updateKeyState: a reading stable for longer than debounceDelay becomes
\* the debounced state
keySettle(state, reading, debounceDelay) ==
  IF millis - state.lastDebounceTime > debounceDelay
       /\ reading # state.currentState
  THEN IF reading THEN keyPressed(state) ELSE keyReleased(state)
  ELSE state

updateKeyStateAt(k, index, reading) ==
  [k EXCEPT !.keyStates[index] =
     [keySettle(keyDebounce(@, reading), reading, k.debounceDelay)
        EXCEPT !.lastState = reading]]

\* KeyLib::updateKeyState(pin); reading is digitalRead(pin) == LOW
updateKeyState(k, pin, reading) ==
  [lib |-> updateKeyStateAt(getKeyIndex(k, pin).lib,
                            getKeyIndex(k, pin).index, reading),
   index |-> getKeyIndex(k, pin).index]

singlePressAt(k, index, updated) ==
  IF k.keyStates[index].singlePressDetected
  THEN [lib |-> [k EXCEPT !.keyStates[index].singlePressDetected = FALSE,
                          !.keyStates[index].pressHandled = TRUE],
        result |-> TRUE, index |-> index, updated |-> updated]
  ELSE [lib |-> k, result |-> FALSE, index |-> index, updated |-> updated]

\* KeyLib::singlePress(pin)
singlePress(k, pin, reading) ==
  singlePressAt(getKeyIndex(updateKeyState(k, pin, reading).lib, pin).lib,
                getKeyIndex(updateKeyState(k, pin, reading).lib, pin).index,
                updateKeyState(k, pin, reading).index)

longPressAgain(k, index, longPressTime, updated) ==
  IF /\ k.keyStates[index].currentState
     /\ millis - k.keyStates[index].lastPressTime >= longPressTime
  THEN [lib |-> [k EXCEPT !.keyStates[index].pressHandled = TRUE,
                          !.keyStates[index].singlePressDetected = FALSE],
        result |-> TRUE, index |-> index, updated |-> updated]
  ELSE [lib |-> k, result |-> FALSE, index |-> index, updated |-> updated]

longPressAt(k, index, longPressTime, updated) ==
  IF /\ k.keyStates[index].currentState
     /\ ~k.keyStates[index].pressHandled
     /\ millis - k.keyStates[index].lastPressTime >= longPressTime
  THEN [lib |-> [k EXCEPT !.keyStates[index].pressHandled = TRUE,
                          !.keyStates[index].singlePressDetected = FALSE],
        result |-> TRUE, index |-> index, updated |-> updated]
  ELSE [lib |-> k, result |-> FALSE, index |-> index, updated |-> updated]

\* KeyLib::longPress(pin, longPressTime)
longPress(k, pin, longPressTime, reading) ==
  longPressAt(getKeyIndex(updateKeyState(k, pin, reading).lib, pin).lib,
              getKeyIndex(updateKeyState(k, pin, reading).lib, pin).index,
              longPressTime,
              updateKeyState(k, pin, reading).index)

\* a time older than the threshold it is compared with is that threshold's
\* time; lastReleaseTime is read by doublePress only, which the sketch never
\* calls, and its age is not followed
KeyElapseState(k, state, d) ==
  [state EXCEPT
     !.lastDebounceTime = Max(@ - d, -(k.debounceDelay + 1)),
     !.lastPressTime = Max(@ - d, -LongPressTime)]

KeyElapse(k, d) ==
  [k EXCEPT !.keyStates =
     [i \in 0 .. MAX_KEYS - 1 |-> KeyElapseState(k, k.keyStates[i], d)]]

(***************************************************************************)
(* SpecKey: loop() polling the select button                               *)
(***************************************************************************)
\* how often the button goes down in one behaviour
MaxDowns == 2

\* time between two calls: an idle pass of loop(), and delay(200)
KeyWaits == {30, 200}

Rising(before, r) ==
  /\ ~before.keyStates[r.updated].currentState
  /\ r.lib.keyStates[r.updated].currentState

Falling(before, r) ==
  /\ before.keyStates[r.updated].currentState
  /\ ~r.lib.keyStates[r.updated].currentState

Count(n, hit) == IF hit THEN Min(n + 1, 2) ELSE n

\* what loop() sees of one call: the phase of the debounced press and the
\* events (true results) since the press began
KeyObserve(p, before, r, call) ==
  [p EXCEPT
     !.phase = IF Rising(before, r) THEN "down"
               ELSE IF Falling(before, r) THEN "up" ELSE @,
     !.singles = Count(IF Rising(before, r) THEN 0 ELSE @,
                       call = "singlePress" /\ r.result),
     !.longs = Count(IF Rising(before, r) THEN 0 ELSE @,
                     call = "longPress" /\ r.result),
     !.result = r.result,
     !.indices = <<r.updated, r.index>>]

\* the button is up or held down when the sketch starts, and does not move
\* before the first ten lookups of getKeyIndex (three passes of loop())
InitKey ==
  /\ menu = KeyLib(DebounceTime)
  /\ \E level \in BOOLEAN :
       probe = [level |-> level, downs |-> IF level THEN 1 ELSE 0,
                phase |-> "idle",
                singles |-> 0, longs |-> 0, result |-> FALSE,
                indices |-> <<0, 0>>]
  /\ op = "longPress"

KeyDown ==
  /\ menu.keyCount = MAX_KEYS
  /\ ~probe.level
  /\ probe.downs < MaxDowns
  /\ probe' = [probe EXCEPT !.level = TRUE, !.downs = @ + 1]
  /\ UNCHANGED <<menu, op>>

KeyUp ==
  /\ menu.keyCount = MAX_KEYS
  /\ probe.level
  /\ probe' = [probe EXCEPT !.level = FALSE]
  /\ UNCHANGED <<menu, op>>

KeyWait ==
  \E d \in KeyWaits :
    /\ menu' = KeyElapse(menu, d)
    /\ UNCHANGED <<op, probe>>

KeySinglePress ==
  /\ op = "longPress"
  /\ menu' = singlePress(menu, BTN_SELECT, probe.level).lib
  /\ probe' = KeyObserve(probe, menu,
                         singlePress(menu, BTN_SELECT, probe.level),
                         "singlePress")
  /\ op' = "singlePress"

KeyLongPress ==
  /\ op = "singlePress"
  /\ menu' = longPress(menu, BTN_SELECT, LongPressTime, probe.level).lib
  /\ probe' = KeyObserve(probe, menu,
                         longPress(menu, BTN_SELECT, LongPressTime,
                                   probe.level),
                         "longPress")
  /\ op' = "longPress"

NextKey == KeyDown \/ KeyUp \/ KeyWait \/ KeySinglePress \/ KeyLongPress

SpecKey == InitKey /\ [][NextKey]_vars

\* the state of the select button inside the library, once its index is settled
SelectKey(s) == s.keyStates[0]

C37_WindowImpliesBan ==
  /\ [](menu.type = 1 => menu.BanOperation)
  /\ [][(menu.BanOperation /\ ~menu'.BanOperation) =>
          (menu.type = 1 /\ menu'.type = 0)]_vars

\* C37 witness: below the root the window tween has run to its end and an
\* update() has repainted the screen; the window mode and the ban are
\* still on.
C37_Witness ==
  /\ op = "update"
  /\ menu.type = 1
  /\ menu.BanOperation
  /\ menu.menuLevel >= 1
  /\ ~menu.animationActive
  /\ FullRepaint(menu)

SelectedCallsBack(s) ==
  /\ s.currentMenu # NULL
  /\ s.selectedIndex < s.currentMenuSize
  /\ ~s.BanOperation
  /\ ItemAt(s.currentMenu, s.selectedIndex).callback = "Back"

\* C38: an accepted select() on an item whose action calls back() returns
\* with menuLevel one lower and the parent's array, size and selection
\* restored from the history; it has not descended, although the item now
\* selected is the parent item, which has a submenu.
C38_BackFromInside ==
  [][(LoopSelect /\ SelectedCallsBack(menu)) =>
       /\ menu.menuLevel >= 1
       /\ menu'.menuLevel = menu.menuLevel - 1
       /\ menu'.currentMenu = menu.menuHistory[menu.menuLevel - 1]
       /\ menu'.currentMenuSize = menu.menuSizeHistory[menu.menuLevel - 1]
       /\ menu'.selectedIndex = menu.selectedIndexHistory[menu.menuLevel - 1]
       /\ hasSubMenu(ItemAt(menu'.currentMenu, menu'.selectedIndex))
       /\ ItemAt(menu'.currentMenu, menu'.selectedIndex).subMenu
            = menu.currentMenu]_vars

\* C38 witness: select() on "Back" in the settings menu has sounded its own
\* tone and the tone of back(), and the root menu is current again with
\* "Set" selected.
C38_Witness ==
  /\ op = "select"
  /\ menu.buzzer = <<"beep", "longBeep">>
  /\ menu.menuLevel = 0
  /\ menu.currentMenu = MainMenu
  /\ menu.selectedIndex = 1

SnapshotCurrent(s) ==
  /\ s.lastSelectedIndex = s.selectedIndex
  /\ s.lastStartIndex = s.startIndex
  /\ s.lastTitle = currentTitleStr(s)

\* C39: whenever update() returns with both animations inactive and the
\* full-repaint flag clear, lastSelectedIndex, lastStartIndex and lastTitle
\* equal selectedIndex, startIndex and the current title; and a navigation
\* call that changes the selection, the viewport or the tree position
\* returns with an animation armed or the full-repaint flag raised.
C39_SnapshotCurrent ==
  /\ [][(LoopUpdate /\ Idle(menu')) => SnapshotCurrent(menu')]_vars
  /\ [][((LoopSelectNext \/ LoopSelectPrev \/ LoopSelect \/ LoopBack)
           /\ NavFields(menu') # NavFields(menu))
          => (Animating(menu') \/ menu'.needFullRedraw)]_vars

\* C39 witness: after a scroll (the viewport has moved) update() has
\* repainted the screen and returned idle.
C39_Witness ==
  /\ op = "update"
  /\ Idle(menu)
  /\ FullRepaint(menu)
  /\ menu.startIndex > 0
  /\ menu.lastStartIndex = menu.startIndex
  /\ menu.lastSelectedIndex = menu.selectedIndex

\* C40 (as stated): for the one pin the sketch polls, every lookup gives the
\* same index, so that each call reads the key state its updateKeyState has
\* written, and keyCount grows only when the pin is first seen: it never
\* exceeds one.
C40_AsStated ==
  /\ probe.indices[1] = probe.indices[2]
  /\ menu.keyCount <= 1

====
